---- MODULE Spec2Model ----
(***************************************************************************)
(* xbsky: the getPost request handler of main.go as a state machine.       *)
(*                                                                         *)
(* Spec follows one request from the fetch of the post thread through the  *)
(* normalization switch, the per-type post-processing switch, the          *)
(* description composer, the view-mode router and genMosaic, for every     *)
(* thread shape.  SpecRequest follows a request from the handler's first   *)
(* line, through resolveHandle and resolvePLC, on a few thread shapes.     *)
(*                                                                         *)
(* Strings that the code only copies or compares are TLA+ strings.  The    *)
(* description, which the code builds by concatenation, is a sequence of   *)
(* tokens: a Go string s is the sequence Str(s), "" is the empty sequence, *)
(* "\n" is the token NL, and += is \o.                                     *)
(***************************************************************************)
EXTENDS Integers, Sequences, FiniteSets, TLC

(* ------------------------------ bounds -------------------------------- *)

\* Largest number of images an images payload of the fetched thread carries.
MaxImages == 3

\* Largest number of nested embeds a quoted record of the fetched thread carries.
MaxEmbeds == 2

\* The most chunks of output ffmpeg writes before it exits.
MaxChunks == 2

(* ----------------------- constants of main.go -------------------------- *)

bskyEmbedImages == "app.bsky.embed.images#view"
bskyEmbedExternal == "app.bsky.embed.external#view"
bskyEmbedVideo == "app.bsky.embed.video#view"
bskyEmbedQuote == "app.bsky.embed.recordWithMedia#view"
bskyEmbedText == "app.bsky.embed.record#view"
bskyEmbedTextQuote == "app.bsky.embed.record#viewRecord"
bskyEmbedList == "app.bsky.graph.defs#listView"
bskyEmbedFeed == "app.bsky.feed.defs#generatorView"
bskyEmbedPack == "app.bsky.graph.defs#starterPackViewBasic"
unknownType == "unknownType"

modList == "app.bsky.graph.defs#modlist"
curateList == "app.bsky.graph.defs#curatelist"

\* Inputs the code has no case for: a $type it does not know, a list purpose
\* it does not know (app.bsky.graph.defs knows a third one, referencelist).
otherTag == "app.bsky.embed.unrecognized#view"
otherPurpose == "app.bsky.graph.defs#referencelist"

defaultPDS == "https://bsky.social"
gifHost == "media.tenor.com"
packMarker == "app.bsky.graph.starterpack/"

(* --------------------------- string helpers ---------------------------- *)

NL == "\n"

\* A Go string as a token sequence: the empty string has no tokens.
Str(s) == IF s = "" THEN <<>> ELSE <<s>>

\* strconv.Atoi on the photoNum path values the model draws.
Atoi(s) ==
  CASE s = "0" -> [err |-> FALSE, val |-> 0]
    [] s = "1" -> [err |-> FALSE, val |-> 1]
    [] s = "2" -> [err |-> FALSE, val |-> 2]
    [] s = "3" -> [err |-> FALSE, val |-> 3]
    [] s = "4" -> [err |-> FALSE, val |-> 4]
    [] s = "5" -> [err |-> FALSE, val |-> 5]
    [] s = "6" -> [err |-> FALSE, val |-> 6]
    [] s = "-1" -> [err |-> FALSE, val |-> -1]
    [] OTHER -> [err |-> TRUE, val |-> 0]

\* The external URIs the fetched thread may carry.
gifURI == "https://media.tenor.com/abc.gif?hh=498&ww=280"
linkURI == "https://example.com/page?a=1"
badURI == "://bad"
\* A GIF whose path is written with a percent-encoded space.
escapedGifURI == "https://media.tenor.com/a%20b.gif?hh=498"

\* url.Parse on those: the error, the host and the path (without the query).
\* URL.Path is the decoded form of the path.
urlParse(u) ==
  CASE u = gifURI -> [err |-> FALSE, Host |-> "media.tenor.com", Path |-> "/abc.gif"]
    [] u = escapedGifURI -> [err |-> FALSE, Host |-> "media.tenor.com", Path |-> "/a b.gif"]
    [] u = linkURI -> [err |-> FALSE, Host |-> "example.com", Path |-> "/page"]
    [] u = badURI -> [err |-> TRUE, Host |-> "", Path |-> ""]
    [] OTHER -> [err |-> FALSE, Host |-> "", Path |-> ""]

\* The starter-pack record URIs the fetched thread may carry.
packURI == "at://did:plc:creator/app.bsky.graph.starterpack/3kpack"
plainURI == "at://did:plc:creator/app.bsky.graph.list/3klist"

\* strings.Cut(uri, "app.bsky.graph.starterpack/") on those: what follows the
\* marker, and whether the marker was found.
cutPack(uri) ==
  IF uri = packURI THEN [after |-> "3kpack", ok |-> TRUE] ELSE [after |-> "", ok |-> FALSE]

(* ------------------------------ zero values ---------------------------- *)

ZeroAspectRatio == [Width |-> 0, Height |-> 0]
ZeroAuthor == [DID |-> "", Handle |-> "", DisplayName |-> "", Avatar |-> ""]
ZeroExternal == [URI |-> "", Title |-> "", Description |-> "", Thumb |-> ""]
ZeroMedia ==
  [Type |-> "", Images |-> <<>>, External |-> ZeroExternal, CID |-> "", Thumbnail |-> "",
   AspectRatio |-> ZeroAspectRatio]
ZeroCommonEmbeds ==
  [Purpose |-> "", Name |-> "", Avatar |-> "", Description |-> "", Creator |-> ZeroAuthor]

\* var selfData ownData
ZeroOwnData ==
  [Type |-> "", Author |-> ZeroAuthor, Record |-> [Text |-> ""], Images |-> <<>>,
   External |-> ZeroExternal, PDS |-> "", VideoCID |-> "", VideoDID |-> "", VideoHelper |-> "",
   Description |-> <<>>, Thumbnail |-> "", AspectRatio |-> ZeroAspectRatio, IsVideo |-> FALSE,
   IsGif |-> FALSE, CommonEmbeds |-> ZeroCommonEmbeds]

(* ------------------- the fetched thread (apiThread) -------------------- *)

\* The DID of the author found at place loc: the post's author has a did:plc
\* identifier, the parent's author a did:web one, and the authors of quoted
\* records identifiers of a method resolvePLC does not know.
DidOf(loc) ==
  CASE loc = "post" -> "did:plc:post"
    [] loc = "parent" -> "did:web:parent.test"
    [] OTHER -> "did:example:" \o loc

\* apiAuthor found at place loc of the document; dn: the display name is empty.
Author(loc, dn) ==
  [DID |-> DidOf(loc), Handle |-> loc \o ".test",
   DisplayName |-> IF dn THEN "" ELSE "Name of " \o loc, Avatar |-> ""]

\* apiImages of n images found at place loc; the first two are equally wide.
Imgs(loc, n) ==
  [i \in 1..n |->
    [FullSize |-> "https://cdn.test/" \o loc \o "/" \o ToString(i), Alt |-> "alt " \o ToString(i),
     AspectRatio |-> [Width |-> 100 * ((i + 1) \div 2), Height |-> 50 * i]]]

\* apiExternal found at place loc: a GIF of the GIF host, a link with or
\* without a thumbnail, a link whose URI does not parse.
Ext(loc, x) ==
  [URI |-> CASE x = "gif" -> gifURI [] x = "escaped" -> escapedGifURI
             [] x = "bad" -> badURI [] OTHER -> linkURI,
   Title |-> "title of " \o loc, Description |-> "about " \o loc,
   Thumb |-> IF x = "nothumb" THEN "" ELSE "https://cdn.test/" \o loc \o "/thumb"]

\* What a media payload can be: v = [tag, n, x] is its $type, its number of
\* images (images only) and the kind of its external (external only).
ImagesVariants == {[tag |-> bskyEmbedImages, n |-> k, x |-> ""] : k \in 0..MaxImages}
ExternalVariants ==
  {[tag |-> bskyEmbedExternal, n |-> 0, x |-> k] : k \in {"gif", "escaped", "link", "nothumb", "bad"}}
VideoVariant == [tag |-> bskyEmbedVideo, n |-> 0, x |-> ""]
OtherVariant == [tag |-> otherTag, n |-> 0, x |-> ""]
NoVariant == [tag |-> "", n |-> 0, x |-> ""]
MediaVariants == ImagesVariants \cup ExternalVariants \cup {VideoVariant, OtherVariant}
\* One payload of each $type, for the nested places.
FewMediaVariants ==
  {[tag |-> bskyEmbedImages, n |-> MaxImages, x |-> ""],
   [tag |-> bskyEmbedExternal, n |-> 0, x |-> "link"], VideoVariant, OtherVariant}

\* mediaData found at place loc.
Media(loc, v) ==
  [Type |-> v.tag,
   Images |-> IF v.tag = bskyEmbedImages THEN Imgs(loc, v.n) ELSE <<>>,
   External |-> IF v.tag = bskyEmbedExternal THEN Ext(loc, v.x) ELSE ZeroExternal,
   CID |-> IF v.tag = bskyEmbedVideo THEN "cid of " \o loc ELSE "",
   Thumbnail |-> IF v.tag = bskyEmbedVideo THEN "https://cdn.test/" \o loc \o "/poster" ELSE "",
   AspectRatio |-> IF v.tag = bskyEmbedVideo THEN [Width |-> 16, Height |-> 9] ELSE ZeroAspectRatio]

\* What a quoted record can be: rv = [rtag, purpose, uri] is its $type, its
\* purpose (lists only) and its record URI (starter packs only).
ListVariants ==
  {[rtag |-> bskyEmbedList, purpose |-> p, uri |-> ""] : p \in {modList, curateList, otherPurpose}}
PackVariants == {[rtag |-> bskyEmbedPack, purpose |-> "", uri |-> u] : u \in {packURI, plainURI}}
FeedVariant == [rtag |-> bskyEmbedFeed, purpose |-> "", uri |-> ""]
PostVariant == [rtag |-> bskyEmbedTextQuote, purpose |-> "", uri |-> ""]
OtherRecord == [rtag |-> otherTag, purpose |-> "", uri |-> ""]
NoRecord == [rtag |-> "", purpose |-> "", uri |-> ""]
CommonVariants == ListVariants \cup PackVariants \cup {FeedVariant, OtherRecord}
FewCommonVariants ==
  {[rtag |-> bskyEmbedList, purpose |-> modList, uri |-> ""],
   [rtag |-> bskyEmbedPack, purpose |-> "", uri |-> packURI], FeedVariant, OtherRecord}

\* The list, feed and starter-pack fields of a record found at place loc.
CommonFields(loc, rv, dn) ==
  LET isList == rv.rtag = bskyEmbedList
      isFeed == rv.rtag = bskyEmbedFeed
      isPack == rv.rtag = bskyEmbedPack
      any == isList \/ isFeed \/ isPack
  IN [Type |-> rv.rtag,
      URI |-> rv.uri,
      DisplayName |-> IF isFeed THEN "feed of " \o loc ELSE "",
      Purpose |-> rv.purpose,
      Name |-> IF isList THEN "list of " \o loc ELSE "",
      Avatar |-> IF isList \/ isFeed THEN "https://cdn.test/" \o loc \o "/avatar" ELSE "",
      Description |-> IF isList \/ isFeed THEN "describes " \o loc ELSE "",
      Creator |-> IF any THEN Author(loc \o ".creator", dn) ELSE ZeroAuthor]

\* An element of Embed.Record.Embeds found at place loc: ev = [tag, m, rv] is
\* its $type, its own or its nested media payload, and its record.
NestedEmbed(loc, ev, dn) ==
  LET own == IF ev.tag = bskyEmbedQuote THEN Media(loc, NoVariant) ELSE Media(loc, ev.m)
      c == CommonFields(loc \o ".record", ev.rv, dn)
  IN [Type |-> ev.tag, Images |-> own.Images, External |-> own.External, CID |-> own.CID,
      Thumbnail |-> own.Thumbnail, AspectRatio |-> own.AspectRatio,
      Media |-> IF ev.tag = bskyEmbedQuote THEN [Media(loc \o ".media", ev.m) EXCEPT !.Type = ev.m.tag]
                ELSE ZeroMedia,
      Record |->
        [Type |-> c.Type, URI |-> c.URI,
         Record |-> [Description |-> IF ev.rv.rtag = bskyEmbedPack THEN "describes " \o loc ELSE "",
                     Name |-> IF ev.rv.rtag = bskyEmbedPack THEN "pack of " \o loc ELSE ""],
         DisplayName |-> c.DisplayName, Purpose |-> c.Purpose, Name |-> c.Name,
         Avatar |-> c.Avatar, Description |-> c.Description, Creator |-> c.Creator]]

\* The nested embeds a quoted post can carry first: media of its own, media
\* beside a quote of its own, or a quoted list, feed or starter pack.
NestedVariants ==
  {[tag |-> m.tag, m |-> m, rv |-> NoRecord] : m \in FewMediaVariants \ {OtherVariant}}
  \cup {[tag |-> bskyEmbedQuote, m |-> m, rv |-> NoRecord] : m \in FewMediaVariants}
  \cup {[tag |-> t, m |-> NoVariant, rv |-> rv] : t \in {bskyEmbedText, otherTag}, rv \in FewCommonVariants}

\* What follows the first nested embed, when there is more than one.
LaterVariant == [tag |-> bskyEmbedVideo, m |-> VideoVariant, rv |-> NoRecord]

\* Record.Embeds: none, or k embeds of which the first is ev.
EmbedLists(loc, evs, dn) ==
  {<<>>} \cup
  {[i \in 1..k |-> NestedEmbed(loc \o ".embeds" \o ToString(i), IF i = 1 THEN ev ELSE LaterVariant, dn)] :
     ev \in evs, k \in 1..MaxEmbeds}

\* apiPost.Embed.Record found at place loc: a quoted post with its nested
\* embeds, the post quoted beside media (Record.Record), or a list, feed or
\* starter pack.
Record(loc, rv, embeds, withMedia, dn) ==
  LET c == CommonFields(loc, rv, dn)
      isPost == rv.rtag = bskyEmbedTextQuote
      isPack == rv.rtag = bskyEmbedPack
  IN [Type |-> c.Type, URI |-> c.URI,
      Record |->
        [Value |-> [Text |-> IF withMedia THEN "text quoted by " \o loc ELSE ""],
         Author |-> IF withMedia THEN Author(loc \o ".quoted", dn) ELSE ZeroAuthor,
         Name |-> IF isPack THEN "pack of " \o loc ELSE "",
         Description |-> IF isPack THEN "describes " \o loc ELSE ""],
      Value |-> [Text |-> IF isPost THEN "text quoted by " \o loc ELSE ""],
      Author |-> IF isPost THEN Author(loc \o ".quoted", dn) ELSE ZeroAuthor,
      Embeds |-> embeds,
      DisplayName |-> c.DisplayName, Purpose |-> c.Purpose, Name |-> c.Name,
      Avatar |-> c.Avatar, Description |-> c.Description, Creator |-> c.Creator]

\* apiPost.Embed with $type tag, payload m (its own, or the media beside a
\* quote) and record rec.
Embed(loc, tag, m, rec) ==
  LET own == IF tag = bskyEmbedQuote THEN Media(loc, NoVariant) ELSE Media(loc, m)
  IN [Type |-> tag,
      Media |-> IF tag = bskyEmbedQuote THEN Media(loc \o ".media", m) ELSE ZeroMedia,
      External |-> own.External, Record |-> rec, Images |-> own.Images, CID |-> own.CID,
      Thumbnail |-> own.Thumbnail, AspectRatio |-> own.AspectRatio]

\* The embeds a post found at place loc can carry: nothing, media, a $type
\* the code does not know, media beside a quote, or a record (a quoted post
\* with the nested embeds of embedLists, a list, a feed, a starter pack).
Embeds(loc, medias, quoteMedias, nested, dn) ==
  {Embed(loc, m.tag, m, Record(loc, NoRecord, <<>>, FALSE, dn)) : m \in medias \cup {NoVariant}}
  \cup {Embed(loc, bskyEmbedQuote, m, Record(loc, NoRecord, <<>>, TRUE, dn)) : m \in quoteMedias}
  \cup {Embed(loc, bskyEmbedText, NoVariant, Record(loc, PostVariant, e, FALSE, dn)) :
          e \in EmbedLists(loc, nested, dn)}
  \cup {Embed(loc, bskyEmbedText, NoVariant, Record(loc, rv, <<>>, FALSE, dn)) : rv \in CommonVariants}

\* apiPost found at place loc.
Post(loc, text, embed, dn) ==
  [Author |-> Author(loc, dn), Record |-> [Text |-> text], Embed |-> embed]

\* Thread.Parent of a post that is no reply (a nil pointer).
NoParent == [IsNil |-> TRUE]

\* The nested embeds of the parent's quoted post the model draws.
ParentNested ==
  {[tag |-> m.tag, m |-> m, rv |-> NoRecord] :
     m \in {[tag |-> bskyEmbedImages, n |-> MaxImages, x |-> ""], VideoVariant}}

\* The threads getPostThread can answer with, every author of which has
\* (dn false) or lacks (dn true) a display name: a post, with or without a parent.
ThreadsOf(dn) ==
  LET embeds == Embeds("post", MediaVariants, FewMediaVariants, NestedVariants, dn)
      parents ==
        {NoParent} \cup
        {[IsNil |-> FALSE, Post |-> Post("parent", "parent text", pe, dn)] :
           pe \in Embeds("parent", MediaVariants, FewMediaVariants, ParentNested, dn)}
  IN {[Post |-> Post("post", text, e, dn), Parent |-> p] :
        text \in {"", "post text"}, e \in embeds, p \in parents}

Threads == ThreadsOf(FALSE) \cup ThreadsOf(TRUE)

ZeroEmbed == Embed("", "", NoVariant, Record("", NoRecord, <<>>, FALSE, TRUE))

\* var postData apiThread
ZeroThread ==
  [Post |-> [Author |-> ZeroAuthor, Record |-> [Text |-> ""], Embed |-> ZeroEmbed],
   Parent |-> NoParent]

(* ------------------------------ the request ---------------------------- *)

\* r.Host: the view mode is its prefix.
Hosts == {"xbsky.app", "raw.xbsky.app", "mosaic.xbsky.app", "api.xbsky.app"}

\* strings.HasPrefix(r.Host, prefix) on those hosts.
hostHasPrefix(h, prefix) == h = prefix \o "xbsky.app"

\* r.PathValue("photoNum"): "" on the route without /photo/, else the path
\* segment, which need not be a number.
PhotoNums == {"", "abc", "-1"} \cup {ToString(i) : i \in 0..(MaxImages + 1)}

\* A request value the handler has not read yet.
NotRead == "(not read)"

\* r.PathValue("profileID"): a handle, a did:plc identifier, a did:web identifier.
ProfileIDs == {"post.test", "did:plc:post", "did:web:post.test"}

\* The names the identifiers of the model are built from, and what can follow
\* one of the prefixes the code tests.
Names ==
  {"post", "post.test", "parent.test", "post.quoted", "parent.quoted",
   "api", "dns", "http"}

Methods == {"plc:", "web:", "example:"}

Dids == {"did:" \o m \o n : m \in Methods, n \in Names}

Remainders ==
  Names \cup {"owner.test"} \cup {":" \o n : n \in Names} \cup {m \o n : m \in Methods, n \in Names} \cup Dids

\* strings.HasPrefix(s, prefix)
HasPrefix(s, prefix) == \E t \in Remainders : s = prefix \o t

\* strings.TrimPrefix(s, prefix)
TrimPrefix(s, prefix) ==
  IF HasPrefix(s, prefix) THEN CHOOSE t \in Remainders : s = prefix \o t ELSE s

\* The zero plcDirectory.
ZeroPlc == [AKA |-> <<>>, Service |-> <<>>]

\* The directory documents a lookup can decode: an empty one, one whose
\* second entry is the first personal data server of two, one with no
\* personal data server.
PlcDocuments ==
  {ZeroPlc,
   [AKA |-> <<"at://owner.test">>,
    Service |-> <<[ID |-> "#bsky_notif", Type |-> "BskyNotificationService", Endpoint |-> "https://notif.test"],
                  [ID |-> "#atproto_pds", Type |-> "AtprotoPersonalDataServer", Endpoint |-> "https://pds.test"],
                  [ID |-> "#atproto_pds", Type |-> "AtprotoPersonalDataServer", Endpoint |-> "https://pds2.test"]>>],
   [AKA |-> <<"at://owner.test">>,
    Service |-> <<[ID |-> "#atproto_pds", Type |-> "SomethingElse", Endpoint |-> "https://other.test"]>>]}

\* What the directory answers a lookup with: a failure (the request cannot be
\* built, the network fails, the status is not 200, the body does not decode)
\* or a document.
PlcReplies ==
  {[err |-> e, doc |-> ZeroPlc] : e \in {"request", "network", "status", "decode"}}
  \cup {[err |-> "", doc |-> d] : d \in PlcDocuments}

\* True when resolvePLC asks the network at all: a did:plc or did:web identifier.
plcLookup(did) == HasPrefix(did, "did:plc:") \/ HasPrefix(did, "did:web:")

\* resolvePLC(ctx, did) when the directory answers reply.
resolvePLC(did, reply) ==
  IF ~plcLookup(did) THEN ZeroPlc
  ELSE IF reply.err # "" THEN ZeroPlc
  ELSE reply.doc

\* One lookup over the network, as recorded in calls.
Call(fn, arg, result) == [fn |-> fn, arg |-> arg, result |-> result]

\* What resolvePLC adds to calls.
plcCall(did, reply) ==
  IF plcLookup(did)
  THEN <<Call("resolvePLC", did, IF reply.err # "" THEN reply.err ELSE "ok")>>
  ELSE <<>>

\* What the resolveHandle API answers: a failure, or a body whose did field
\* is a DID or something else.
ApiReplies ==
  {[err |-> e, DID |-> ""] : e \in {"request", "network", "status", "decode"}}
  \cup {[err |-> "", DID |-> d] : d \in {"did:plc:api", "api"}}

\* resolveHandleAPI(ctx, handle): [did, ok, why]
resolveHandleAPI(handle, reply) ==
  IF reply.err # "" THEN [did |-> handle, ok |-> FALSE, why |-> reply.err]
  ELSE IF ~HasPrefix(reply.DID, "did:") THEN [did |-> handle, ok |-> FALSE, why |-> "prefix"]
  ELSE [did |-> reply.DID, ok |-> TRUE, why |-> "ok"]

\* What the TXT lookup of _atproto.<handle> answers: an error, or records.
DnsReplies ==
  {[err |-> "lookup", records |-> <<>>]}
  \cup {[err |-> "", records |-> r] :
          r \in {<<>>, <<"did=did:plc:dns">>, <<"did=dns">>, <<"plc:dns", "did=did:plc:dns">>}}

\* resolveHandleDNS(ctx, handle)
resolveHandleDNS(handle, reply) ==
  IF reply.err # "" THEN [did |-> handle, ok |-> FALSE, why |-> reply.err]
  ELSE IF Len(reply.records) > 0 /\ HasPrefix(reply.records[1], "did=")
  THEN [did |-> TrimPrefix(reply.records[1], "did="), ok |-> TRUE, why |-> "ok"]
  ELSE [did |-> handle, ok |-> FALSE,
        why |-> IF Len(reply.records) = 0 THEN "empty" ELSE "prefix"]

\* What https://<handle>/.well-known/atproto-did answers: a failure, or a body.
HttpReplies ==
  {[err |-> e, body |-> ""] : e \in {"request", "network", "status", "read"}}
  \cup {[err |-> "", body |-> b] : b \in {"did:plc:http", "http"}}

\* resolveHandleHTTP(ctx, handle)
resolveHandleHTTP(handle, reply) ==
  IF reply.err # "" THEN [did |-> handle, ok |-> FALSE, why |-> reply.err]
  ELSE IF ~HasPrefix(reply.body, "did:") THEN [did |-> handle, ok |-> FALSE, why |-> "prefix"]
  ELSE [did |-> reply.body, ok |-> TRUE, why |-> "ok"]

\* if !strings.HasPrefix(editedPID, "at://") { editedPID = "at://" + editedPID }
atURI(pid) == IF HasPrefix(pid, "at://") THEN pid ELSE "at://" \o pid

(* --------------------------------- state ------------------------------- *)

VARIABLES
  pc,        \* the handler's position in getPost
  postData,  \* the decoded thread
  selfData,  \* the record handed to the template
  mediaMsg,  \* "Photo i of N"
  photoNum,  \* r.PathValue("photoNum"), once read
  host,      \* r.Host, once read
  cmd,       \* the ffmpeg invocation genMosaic built
  response,  \* what was written to the http.ResponseWriter
  profileID, \* r.PathValue("profileID")
  editedPID, \* the identifier the thread is asked for
  plcData,   \* the directory document of the profile
  calls,     \* the identity lookups made over the network, in order
  sent,      \* the chunks of image output ffmpeg has written to the client
  handler,   \* the handler the route of the request selects
  inflight,  \* the outbound calls issued and not yet returned
  cancelled  \* r.Context() is cancelled: the client has gone

vars == <<pc, postData, selfData, mediaMsg, photoNum, host, cmd, response,
          profileID, editedPID, plcData, calls, sent, handler, inflight, cancelled>>

\* What a response carries besides its kind and its text: the documents the
\* api. host encodes, or the values handed to the template.
NoData == [originalData |-> ZeroThread, parsedData |-> ZeroOwnData, mediaMsg |-> <<>>]

NoResponse == [kind |-> "none", arg |-> "", data |-> NoData]
NoCmd == [started |-> FALSE, inputs |-> <<>>, scale |-> <<>>, stack |-> <<>>]

\* errorPage(w, msg)
errorPage(msg) == [kind |-> "error", arg |-> msg, data |-> NoData]

\* http.Redirect(w, r, target, http.StatusFound)
redirect(target) == [kind |-> "redirect", arg |-> target, data |-> NoData]

\* w.Header().Set("Content-Type", contentType), the body being written by
\* the subprocess.
stream(contentType) == [kind |-> "stream", arg |-> contentType, data |-> NoData]

\* http.Error(w, msg, http.StatusInternalServerError) on a response nothing
\* was written to yet.
httpError(msg) == [kind |-> "error500", arg |-> msg, data |-> NoData]

\* http.Error after image output was written: the status and the image/jpeg
\* header are out already, and msg follows the image bytes in the body.
trailingError(msg) == [kind |-> "partial", arg |-> msg, data |-> NoData]

(* ------------------------ the normalization switch --------------------- *)

\* selfData.Type = bskyEmbedImages; selfData.Images = images
setImages(sd, images) == [sd EXCEPT !.Type = bskyEmbedImages, !.Images = images]

\* selfData.Type = bskyEmbedExternal; selfData.External = external
setExternal(sd, external) == [sd EXCEPT !.Type = bskyEmbedExternal, !.External = external]

\* selfData.Type = bskyEmbedVideo and the four video fields, from the embed
\* or media m that carries the video, owned by did.
setVideo(sd, m, did) ==
  [sd EXCEPT !.Type = bskyEmbedVideo, !.VideoCID = m.CID, !.VideoDID = did,
             !.AspectRatio = m.AspectRatio, !.Thumbnail = m.Thumbnail, !.IsVideo = TRUE]

setUnknown(sd) == [sd EXCEPT !.Type = unknownType]

\* Variant: the owner is taken from the quoted record, as for nested embeds.
quotedRecordOwner(post) == post.Embed.Record.Record.Author.DID

\* The owner of a video found in the media beside a quote of the main post.
quoteVideoOwner(post) == post.Author.DID

\* Variant: the owner of a nested video is the author of the main post.
nestedVideoOwnerMain(rec) == "did:plc:post"

\* The owner of a video found in the nested embeds of the quoted record rec.
nestedVideoOwner(rec) == rec.Author.DID

\* Variant: the media switch without its default case.
mediaSwitchNoDefault(sd, media, did) ==
  CASE media.Type = bskyEmbedImages -> setImages(sd, media.Images)
    [] media.Type = bskyEmbedExternal -> setExternal(sd, media.External)
    [] media.Type = bskyEmbedVideo -> setVideo(sd, media, did)
    [] OTHER -> sd

\* switch ...Embed.Media.Type: images, external, video, default.
mediaSwitch(sd, media, did) ==
  CASE media.Type = bskyEmbedImages -> setImages(sd, media.Images)
    [] media.Type = bskyEmbedExternal -> setExternal(sd, media.External)
    [] media.Type = bskyEmbedVideo -> setVideo(sd, media, did)
    [] OTHER -> setUnknown(sd)

\* The starter-pack card: the id after the marker in the record URI, under
\* the creator's DID; the avatar stays empty when the marker is not found.
packAvatar(rec) ==
  IF cutPack(rec.URI).ok
  THEN "https://ogcard.cdn.bsky.app/start/" \o rec.Creator.DID \o "/" \o cutPack(rec.URI).after
  ELSE ""

\* switch ...Record.Type: list, starter pack, feed, default.
commonSwitch(sd, rec) ==
  CASE rec.Type = bskyEmbedList ->
         [sd EXCEPT !.Type = bskyEmbedList,
                    !.CommonEmbeds.Name = rec.Name, !.CommonEmbeds.Avatar = rec.Avatar,
                    !.CommonEmbeds.Description = rec.Description,
                    !.CommonEmbeds.Purpose = rec.Purpose, !.CommonEmbeds.Creator = rec.Creator]
    [] rec.Type = bskyEmbedPack ->
         [sd EXCEPT !.Type = bskyEmbedPack,
                    !.CommonEmbeds.Name = rec.Record.Name,
                    !.CommonEmbeds.Description = rec.Record.Description,
                    !.CommonEmbeds.Creator = rec.Creator,
                    !.CommonEmbeds.Avatar = packAvatar(rec)]
    [] rec.Type = bskyEmbedFeed ->
         [sd EXCEPT !.Type = bskyEmbedFeed,
                    !.CommonEmbeds.Name = rec.DisplayName, !.CommonEmbeds.Avatar = rec.Avatar,
                    !.CommonEmbeds.Description = rec.Description,
                    !.CommonEmbeds.Creator = rec.Creator]
    [] OTHER -> setUnknown(sd)

\* theEmbed := ...Record.Embeds[0]; switch theEmbed.Type.
nestedSwitch(sd, rec) ==
  LET theEmbed == rec.Embeds[1]
  IN CASE theEmbed.Type = bskyEmbedImages -> setImages(sd, theEmbed.Images)
       [] theEmbed.Type = bskyEmbedExternal -> setExternal(sd, theEmbed.External)
       [] theEmbed.Type = bskyEmbedVideo -> setVideo(sd, theEmbed, nestedVideoOwner(rec))
       [] theEmbed.Type = bskyEmbedQuote -> mediaSwitch(sd, theEmbed.Media, nestedVideoOwner(rec))
       [] OTHER -> commonSwitch(sd, theEmbed.Record)

\* case bskyEmbedText of the main post.
textSwitch(sd, rec) ==
  IF Len(rec.Embeds) > 0 THEN nestedSwitch(sd, rec) ELSE commonSwitch(sd, rec)

\* Variant: the parent's quoted record is searched for nested embeds too.
parentTextSwitchNested(sd, rec) ==
  IF Len(rec.Embeds) > 0 THEN nestedSwitch(sd, rec) ELSE commonSwitch(sd, rec)

\* case bskyEmbedText of the parent: the record's own $type only.
parentTextSwitch(sd, rec) == commonSwitch(sd, rec)

\* switch postData.Thread.Parent.Post.Embed.Type.
parentSwitch(sd, parent) ==
  LET e == parent.Embed
  IN CASE e.Type = bskyEmbedImages -> setImages(sd, e.Images)
       [] e.Type = bskyEmbedExternal -> setExternal(sd, e.External)
       [] e.Type = bskyEmbedVideo -> setVideo(sd, e, parent.Author.DID)
       [] e.Type = bskyEmbedQuote -> mediaSwitch(sd, e.Media, parent.Author.DID)
       [] e.Type = bskyEmbedText -> parentTextSwitch(sd, e.Record)
       [] OTHER -> setUnknown(sd)

\* Variant: the default case without the else branch of the parent test.
defaultSwitchNoElse(sd, thread) ==
  IF ~thread.Parent.IsNil THEN parentSwitch(sd, thread.Parent.Post) ELSE sd

\* Variant: the default case never looks at the parent.
defaultSwitchNoParent(sd, thread) == setUnknown(sd)

\* default of the main switch: a text post (assumed).
defaultSwitch(sd, thread) ==
  IF ~thread.Parent.IsNil THEN parentSwitch(sd, thread.Parent.Post) ELSE setUnknown(sd)

\* switch postData.Thread.Post.Embed.Type.
normalize(sd, thread) ==
  LET post == thread.Post
      e == post.Embed
  IN CASE e.Type = bskyEmbedImages -> setImages(sd, e.Images)
       [] e.Type = bskyEmbedExternal -> setExternal(sd, e.External)
       [] e.Type = bskyEmbedVideo -> setVideo(sd, e, post.Author.DID)
       [] e.Type = bskyEmbedQuote -> mediaSwitch(sd, e.Media, quoteVideoOwner(post))
       [] e.Type = bskyEmbedText -> textSwitch(sd, e.Record)
       [] OTHER -> defaultSwitch(sd, thread)

\* selfData.Author: the post's author, with the handle of the profile's
\* directory document when it names one.
ownAuthor(author, plc) ==
  IF Len(plc.AKA) > 0
  THEN LET handle == TrimPrefix(plc.AKA[1], "at://")
       IN [author EXCEPT !.Handle = handle,
                         !.DisplayName = IF author.DisplayName = "" THEN handle ELSE @]
  ELSE author

\* selfData as built before the switch.
initSelfData(thread, plc) ==
  [ZeroOwnData EXCEPT !.Author = ownAuthor(thread.Post.Author, plc), !.PDS = defaultPDS,
                      !.Record = thread.Post.Record,
                      !.Description = Str(thread.Post.Record.Text)]

(* ----------------------- the post-processing switch -------------------- *)

\* Variant: the creator's display name is used as it came.
noCreatorFallback(sd) == sd

\* if selfData.CommonEmbeds.Creator.DisplayName == "" { ... = Creator.Handle }
creatorFallback(sd) ==
  IF sd.CommonEmbeds.Creator.DisplayName = ""
  THEN [sd EXCEPT !.CommonEmbeds.Creator.DisplayName = sd.CommonEmbeds.Creator.Handle]
  ELSE sd

\* fmt.Sprintf("\n\n%s\n<label>%s (@%s)\n\n%s", Name, Creator.DisplayName,
\* Creator.Handle, Description); the label stands for the icon and its text.
summary(sd, label) ==
  <<NL, NL>> \o Str(sd.CommonEmbeds.Name) \o <<NL, label>>
    \o Str(sd.CommonEmbeds.Creator.DisplayName) \o <<" (@">>
    \o Str(sd.CommonEmbeds.Creator.Handle) \o <<")", NL, NL>>
    \o Str(sd.CommonEmbeds.Description)

modLabel == "(icon) A moderation list by "
curateLabel == "(icon) A curator list by "
packLabel == "(icon) A starter pack by "
feedLabel == "(icon) A feed by "

\* selfData.Description += summary
addSummary(sd, label) == [sd EXCEPT !.Description = sd.Description \o summary(sd, label)]

\* switch selfData.CommonEmbeds.Purpose: two cases, no default.
listSummary(sd) ==
  CASE sd.CommonEmbeds.Purpose = modList -> addSummary(sd, modLabel)
    [] sd.CommonEmbeds.Purpose = curateList -> addSummary(sd, curateLabel)
    [] OTHER -> sd

\* case bskyEmbedList
postList(sd) == listSummary(creatorFallback(sd))

\* case bskyEmbedPack
postPack(sd) == addSummary(creatorFallback(sd), packLabel)

\* case bskyEmbedFeed
postFeed(sd) == addSummary(creatorFallback(sd), feedLabel)

\* case bskyEmbedExternal
postExternal(sd) ==
  LET parsedURL == urlParse(sd.External.URI)
      isGif == IF parsedURL.err THEN FALSE ELSE parsedURL.Host = gifHost
  IN IF isGif
     THEN [sd EXCEPT !.IsGif = TRUE, !.External.URI = "https://media.tenor.com" \o parsedURL.Path]
     ELSE [sd EXCEPT !.IsGif = FALSE,
                     !.Description = sd.Description \o <<NL, NL>> \o Str(sd.External.Title)
                                       \o <<NL>> \o Str(sd.External.Description)]

\* if pnValue < 1 { pnValue = 1 }
clampPhoto(pnValue) == IF pnValue < 1 THEN 1 ELSE pnValue

\* Variant: the range test is off by one.
narrowsStrict(imgLen, pnValue) == imgLen > 1 /\ imgLen > pnValue

\* if imgLen > 1 && imgLen >= pnValue
narrows(imgLen, pnValue) == imgLen > 1 /\ imgLen >= pnValue

\* fmt.Sprintf("Photo %d of %d", pnValue, imgLen)
photoMsg(pnValue, imgLen) == <<"Photo ", ToString(pnValue), " of ", ToString(imgLen)>>

\* Variant: a photo number that is no integer is passed over.
postImagesLenient(sd, pnStr) ==
  LET parsed == Atoi(pnStr)
      pnValue == clampPhoto(parsed.val)
      imgLen == Len(sd.Images)
  IN IF pnStr = "" \/ parsed.err THEN [sd |-> sd, msg |-> <<>>, err |-> FALSE]
     ELSE IF narrows(imgLen, pnValue)
          THEN [sd |-> [sd EXCEPT !.Images = <<sd.Images[pnValue]>>],
                msg |-> photoMsg(pnValue, imgLen), err |-> FALSE]
          ELSE [sd |-> sd, msg |-> <<>>, err |-> FALSE]

\* Variant: the photo number is checked but the list is left whole.
postImagesWhole(sd, pnStr) ==
  LET parsed == Atoi(pnStr)
  IN IF pnStr = "" THEN [sd |-> sd, msg |-> <<>>, err |-> FALSE]
     ELSE IF parsed.err THEN [sd |-> sd, msg |-> <<>>, err |-> TRUE]
     ELSE [sd |-> sd, msg |-> <<>>, err |-> FALSE]

\* case bskyEmbedImages: the record, the media message and whether the
\* handler has answered with the error page.
postImages(sd, pnStr) ==
  LET parsed == Atoi(pnStr)
      pnValue == clampPhoto(parsed.val)
      imgLen == Len(sd.Images)
  IN IF pnStr = "" THEN [sd |-> sd, msg |-> <<>>, err |-> FALSE]
     ELSE IF parsed.err THEN [sd |-> sd, msg |-> <<>>, err |-> TRUE]
     ELSE IF narrows(imgLen, pnValue)
          THEN [sd |-> [sd EXCEPT !.Images = <<sd.Images[pnValue]>>],
                msg |-> photoMsg(pnValue, imgLen), err |-> FALSE]
          ELSE [sd |-> sd, msg |-> <<>>, err |-> FALSE]

\* The indices of the service entries with the id of a personal data server,
\* whatever their type.
pdsEntriesByID(plc) ==
  {i \in 1..Len(plc.Service) : plc.Service[i].ID = "#atproto_pds"}

\* The indices of the service entries of the personal data server.
pdsEntries(plc) ==
  {i \in 1..Len(plc.Service) :
     plc.Service[i].ID = "#atproto_pds" /\ plc.Service[i].Type = "AtprotoPersonalDataServer"}

\* case bskyEmbedVideo: the loop over vidOwnerPLC.Service stops at the first match.
postVideo(sd, vidOwnerPLC) ==
  LET hits == pdsEntries(vidOwnerPLC)
  IN IF hits = {} THEN sd
     ELSE [sd EXCEPT !.PDS = vidOwnerPLC.Service[CHOOSE i \in hits : \A j \in hits : i <= j].Endpoint]

(* ------------------------- the description composer -------------------- *)

\* if selfData.Description != "" { selfData.Description += "\n\n" }
separate(desc) == IF desc # <<>> THEN desc \o <<NL, NL>> ELSE desc

\* if author.DisplayName == "" { author.DisplayName = author.Handle }
nameFallback(author) ==
  IF author.DisplayName = "" THEN [author EXCEPT !.DisplayName = author.Handle] ELSE author

quoteLabel == "(icon) Quoting "
replyLabel == "(icon) Replying to "

\* fmt.Sprintf("<label>%s (@%s):\n%s", author.DisplayName, author.Handle, text)
section(label, author, text) ==
  <<label>> \o Str(author.DisplayName) \o <<" (@">> \o Str(author.Handle) \o <<"):", NL>> \o Str(text)

\* Whether the main post quotes a post: as a text quote, or beside media.
isTextQuote(thread) ==
  thread.Post.Embed.Type = bskyEmbedText /\ thread.Post.Embed.Record.Type = bskyEmbedTextQuote
isMediaQuote(thread) == thread.Post.Embed.Type = bskyEmbedQuote

\* The quoting step writes the display-name fallback into postData.
quoteFallback(thread) ==
  CASE isTextQuote(thread) ->
         [thread EXCEPT !.Post.Embed.Record.Author = nameFallback(@)]
    [] isMediaQuote(thread) ->
         [thread EXCEPT !.Post.Embed.Record.Record.Author = nameFallback(@)]
    [] OTHER -> thread

\* switch postData.Thread.Post.Embed.Type: the description after the quoting step.
addQuote(desc, thread) ==
  LET rec == quoteFallback(thread).Post.Embed.Record
  IN CASE isTextQuote(thread) -> separate(desc) \o section(quoteLabel, rec.Author, rec.Value.Text)
       [] isMediaQuote(thread) ->
            separate(desc) \o section(quoteLabel, rec.Record.Author, rec.Record.Value.Text)
       [] OTHER -> desc

\* The reply step writes the display-name fallback into postData.
replyFallback(thread) ==
  IF ~thread.Parent.IsNil
  THEN [thread EXCEPT !.Parent.Post.Author = nameFallback(@)]
  ELSE thread

\* if postData.Thread.Parent != nil: the description after the reply step.
addReply(desc, thread) ==
  IF ~thread.Parent.IsNil
  THEN LET parent == replyFallback(thread).Parent.Post
       IN separate(desc) \o section(replyLabel, parent.Author, parent.Record.Text)
  ELSE desc

\* Variant: replies first, then quoting.
composeReplyFirst(desc, thread) == addQuote(addReply(desc, thread), thread)

\* Quoting first, then replies.
compose(desc, thread) == addReply(addQuote(desc, thread), thread)

(* -------------------------------- genMosaic ---------------------------- *)

RECURSIVE sumWidth(_)
\* avgWidth += int(k.AspectRatio.Width), over the images
sumWidth(images) ==
  IF images = <<>> THEN 0
  ELSE images[1].AspectRatio.Width + sumWidth(Tail(images))

\* The ffmpeg invocation with every input scaled to the first one's width.
mosaicCmdFirstWidth(images) ==
  [started |-> TRUE, inputs |-> [i \in 1..Len(images) |-> images[i].FullSize],
   scale |-> [i \in 1..Len(images) |->
                [src |-> i - 1, width |-> images[1].AspectRatio.Width, out |-> i - 1]],
   stack |-> [i \in 1..Len(images) |-> i - 1]]

\* The ffmpeg invocation: the -i inputs in order, and the filter graph, which
\* scales input i to the common width under the label m<i> and stacks the
\* labels in order.
mosaicCmd(images) ==
  LET avgWidth == sumWidth(images) \div Len(images)
  IN [started |-> TRUE, inputs |-> [i \in 1..Len(images) |-> images[i].FullSize],
      scale |-> [i \in 1..Len(images) |-> [src |-> i - 1, width |-> avgWidth, out |-> i - 1]],
      stack |-> [i \in 1..Len(images) |-> i - 1]]

\* genMosaic without its case of one image.
genMosaicNoRedirect(images) ==
  CASE Len(images) = 0 -> [cmd |-> NoCmd, response |-> errorPage("genMosaic: No images")]
    [] OTHER -> [cmd |-> mosaicCmd(images), response |-> stream("image/jpeg")]

\* genMosaic before it runs the command: the answer for 0 and 1 images, no
\* answer yet for more.
genMosaic(images) ==
  CASE Len(images) = 0 -> [cmd |-> NoCmd, response |-> errorPage("genMosaic: No images")]
    [] Len(images) = 1 -> [cmd |-> NoCmd, response |-> redirect(images[1].FullSize)]
    [] OTHER -> [cmd |-> mosaicCmd(images), response |-> stream("image/jpeg")]

(* ------------------------------ the router ----------------------------- *)

\* fmt.Sprintf("%s/xrpc/com.atproto.sync.getBlob?cid=%s&did=%s", PDS, VideoCID, VideoDID)
blobURL(sd) ==
  sd.PDS \o "/xrpc/com.atproto.sync.getBlob?cid=" \o sd.VideoCID \o "&did=" \o sd.VideoDID

CommonTypes == {bskyEmbedList, bskyEmbedPack, bskyEmbedFeed}

\* The mosaic. host answering a video with a redirect to its blob.
routeMosaicVideoToo(sd) ==
  IF sd.Type = bskyEmbedImages THEN genMosaic(sd.Images)
  ELSE IF sd.Type = bskyEmbedVideo THEN [cmd |-> NoCmd, response |-> redirect(blobURL(sd))]
  ELSE [cmd |-> NoCmd, response |-> errorPage("getPost: Invalid type")]

\* if strings.HasPrefix(r.Host, "mosaic.")
routeMosaic(sd) ==
  IF sd.Type = bskyEmbedImages THEN genMosaic(sd.Images)
  ELSE [cmd |-> NoCmd, response |-> errorPage("getPost: Invalid type")]

\* The raw. host preferring the thumbnail of an external to its GIF.
routeRawThumbFirst(sd) ==
  CASE sd.Type = bskyEmbedImages -> genMosaic(sd.Images)
    [] sd.Type = bskyEmbedExternal ->
         [cmd |-> NoCmd,
          response |-> IF sd.External.Thumb # "" THEN redirect(sd.External.Thumb)
                       ELSE IF sd.IsGif THEN redirect(sd.External.URI)
                       ELSE errorPage("getPost: No suitable media found")]
    [] sd.Type = bskyEmbedVideo -> [cmd |-> NoCmd, response |-> redirect(blobURL(sd))]
    [] sd.Type \in CommonTypes ->
         [cmd |-> NoCmd,
          response |-> IF sd.CommonEmbeds.Avatar # "" THEN redirect(sd.CommonEmbeds.Avatar)
                       ELSE errorPage("getPost: No suitable media found")]
    [] OTHER -> [cmd |-> NoCmd, response |-> errorPage("getPost: Invalid type")]

\* if strings.HasPrefix(r.Host, "raw.")
routeRaw(sd) ==
  CASE sd.Type = bskyEmbedImages -> genMosaic(sd.Images)
    [] sd.Type = bskyEmbedExternal ->
         [cmd |-> NoCmd,
          response |-> IF sd.IsGif THEN redirect(sd.External.URI)
                       ELSE IF sd.External.Thumb # "" THEN redirect(sd.External.Thumb)
                       ELSE errorPage("getPost: No suitable media found")]
    [] sd.Type = bskyEmbedVideo -> [cmd |-> NoCmd, response |-> redirect(blobURL(sd))]
    [] sd.Type \in CommonTypes ->
         [cmd |-> NoCmd,
          response |-> IF sd.CommonEmbeds.Avatar # "" THEN redirect(sd.CommonEmbeds.Avatar)
                       ELSE errorPage("getPost: No suitable media found")]
    [] OTHER -> [cmd |-> NoCmd, response |-> errorPage("getPost: Invalid type")]

\* if strings.HasPrefix(r.Host, "api."): selfData as encoded.
apiData(sd) == IF sd.Type = bskyEmbedVideo THEN [sd EXCEPT !.VideoHelper = blobURL(sd)] ELSE sd

(* --------------------------- the primary fetch ------------------------- *)

\* The handlers of the routes under /profile and /starter-pack.
Handlers == {"getProfile", "getFeed", "getList", "getPack", "getPost"}

\* The API method each handler fetches its data from.
fetchName(h) ==
  CASE h = "getProfile" -> "app.bsky.actor.getProfile"
    [] h = "getFeed" -> "app.bsky.feed.getFeedGenerator"
    [] h = "getList" -> "app.bsky.graph.getList"
    [] h = "getPack" -> "app.bsky.graph.getStarterPack"
    [] h = "getPost" -> "app.bsky.feed.getPostThread"

\* How the fetch can fail: the request cannot be built, timeoutClient.Do
\* returns context.DeadlineExceeded or another error, the status is not
\* 200, the body does not decode.
FetchCauses == {"request", "timeout", "network", "status", "decode"}

\* resp.Status of an answer that is not 200.
Statuses == {"404 Not Found", "502 Bad Gateway"}

\* getProfile and getPost write "Failed", the other handlers "failed".
failedWord(h) == IF h \in {"getProfile", "getPost"} THEN "Failed" ELSE "failed"

\* The messages without the case of the timeout: context.DeadlineExceeded
\* is reported as any other error of the request.
fetchMessageNoTimeout(h, cause, status) ==
  CASE cause = "request" -> h \o ": " \o failedWord(h) \o " to create request"
    [] cause \in {"timeout", "network"} -> h \o ": " \o failedWord(h) \o " to do request"
    [] cause = "status" -> h \o ": Unexpected status (" \o status \o ")"
    [] cause = "decode" -> h \o ": " \o failedWord(h) \o " to decode response"

\* The message of the error page for each failure of the fetch.
fetchMessage(h, cause, status) ==
  CASE cause = "request" -> h \o ": " \o failedWord(h) \o " to create request"
    [] cause = "timeout" -> h \o ": Bluesky took too long to respond (timeout exceeded)"
    [] cause = "network" -> h \o ": " \o failedWord(h) \o " to do request"
    [] cause = "status" -> h \o ": Unexpected status (" \o status \o ")"
    [] cause = "decode" -> h \o ": " \o failedWord(h) \o " to decode response"

\* A handler that fetches again after a timeout.
afterFailureRetry(cause) == IF cause = "timeout" THEN "fetch" ELSE "done"

\* After errorPage the handler returns.
afterFailure(cause) == "done"

\* What getProfile, getFeed, getList and getPack decode: the creator (for a
\* profile, the user), the description, and the purpose of a list.
OtherDocs(h) ==
  {[Handle |-> "post.test", DisplayName |-> dn, Description |-> Str("about"), Purpose |-> purpose] :
     dn \in {"", "Name"},
     purpose \in IF h = "getList" THEN {modList, curateList, otherPurpose} ELSE {""}}

\* The line the feed, list and starter-pack handlers put before the description.
byLine(label, doc) ==
  <<label, doc.DisplayName, " (@", doc.Handle, ")", NL, NL>> \o doc.Description

\* What each of those handlers hands to its template.
otherView(h, doc, plc) ==
  LET named == ownAuthor(doc, plc)
  IN CASE h = "getProfile" -> named
       [] h = "getFeed" -> [named EXCEPT !.Description = byLine("(icon) A feed by ", named)]
       [] h = "getPack" -> [named EXCEPT !.Description = byLine("(icon) A starter pack by ", named)]
       [] h = "getList" ->
            CASE named.Purpose = modList ->
                   [named EXCEPT !.Description = byLine("(icon) A moderation list by ", named)]
              [] named.Purpose = curateList ->
                   [named EXCEPT !.Description = byLine("(icon) A curator list by ", named)]
              [] OTHER -> named

\* The template of each of those handlers.
templateOf(h) ==
  CASE h = "getProfile" -> "profile.html"
    [] h = "getFeed" -> "feed.html"
    [] h = "getList" -> "list.html"
    [] h = "getPack" -> "pack.html"

(* -------------------------------- actions ------------------------------ *)

\* A request as the handler receives it.
InitRequest ==
  /\ pc = "start"
  /\ profileID \in ProfileIDs
  /\ editedPID = ""
  /\ plcData = ZeroPlc
  /\ calls = <<>>
  /\ postData = ZeroThread
  /\ selfData = ZeroOwnData
  /\ mediaMsg = <<>>
  /\ photoNum = NotRead
  /\ host = NotRead
  /\ cmd = NoCmd
  /\ response = NoResponse
  /\ sent = 0
  /\ handler \in Handlers
  /\ inflight = {}
  /\ cancelled = FALSE

\* The profile's directory document in the requests followed from the fetch on.
ProfileDoc ==
  [AKA |-> <<"at://owner.test">>,
   Service |-> <<[ID |-> "#atproto_pds", Type |-> "AtprotoPersonalDataServer",
                  Endpoint |-> "https://profile-pds.test"]>>]

\* A request of a did:plc profile whose directory document was found, at the
\* point where the thread is fetched.
Init ==
  /\ pc = "fetch"
  /\ profileID = "did:plc:post"
  /\ editedPID = "at://did:plc:post"
  /\ plcData = ProfileDoc
  /\ calls = <<Call("resolvePLC", "did:plc:post", "ok")>>
  /\ sent = 0
  /\ postData = ZeroThread
  /\ selfData = ZeroOwnData
  /\ mediaMsg = <<>>
  /\ photoNum = NotRead
  /\ host = NotRead
  /\ cmd = NoCmd
  /\ response = NoResponse
  /\ handler = "getPost"
  /\ inflight = {}
  /\ cancelled = FALSE

\* The outbound call the handler is about to make, if it makes one here:
\* resolvePLC asks the directory only for a did:plc or did:web identifier.
Outbound ==
  CASE pc = "api" -> {"resolveHandleAPI"}
    [] pc = "dns" -> {"resolveHandleDNS"}
    [] pc = "http" -> {"resolveHandleHTTP"}
    [] pc = "plc" -> IF plcLookup(editedPID) THEN {"resolvePLC"} ELSE {}
    [] pc = "fetch" -> {fetchName(handler)}
    [] pc = "postprocess" ->
         IF selfData.Type = bskyEmbedVideo /\ plcLookup(selfData.VideoDID)
         THEN {"resolvePLC"} ELSE {}
    [] OTHER -> {}

\* A resolveHandle that sends the DNS query along with every call.
issuedRaced(fn) == {fn, "resolveHandleDNS"}

\* What goes on the wire when the handler calls fn: that call.
issued(fn) == {fn}

\* A handler that asks for the profile by the identifier of the request,
\* whatever resolveHandle returned.
profileKeyUnresolved(h, id) == IF h = "getProfile" THEN profileID ELSE atURI(profileID)

\* The identifier the fetch asks for: getProfile the bare identifier, the
\* other handlers the at:// URI.
profileKey(h, id) == IF h = "getProfile" THEN id ELSE atURI(id)

\* timeoutClient.Do, or net.LookupTXT, is called: the call is in flight, and
\* the handler waits for it.
Issue ==
  /\ inflight = {}
  /\ \E fn \in Outbound : inflight' = issued(fn)
  /\ UNCHANGED <<pc, postData, selfData, mediaMsg, photoNum, host, cmd, response>>
  /\ UNCHANGED <<profileID, editedPID, plcData, calls, sent>>
  /\ UNCHANGED <<handler, cancelled>>

\* The call fn ends with err: a request that could not be built was never
\* sent, any other outcome is that of a call in flight.
Returns(fn, err) ==
  /\ IF err = "request" THEN inflight = {} ELSE fn \in inflight
  /\ inflight' = inflight \ {fn}

\* getPost reads the profile identifier; an identifier that starts with
\* did:plc skips resolveHandle.
Start ==
  /\ pc = "start"
  /\ editedPID' = profileID
  /\ pc' = IF ~HasPrefix(profileID, "did:plc") THEN "api" ELSE "plc"
  /\ UNCHANGED <<postData, selfData, mediaMsg, photoNum, host, cmd, response>>
  /\ UNCHANGED <<profileID, plcData, calls, sent>>
  /\ UNCHANGED <<handler, inflight, cancelled>>

\* resolveHandle going on to DNS whatever the API answered.
afterAPIAlways(ok) == "dns"

\* Where resolveHandle goes after the API: it returns, or tries DNS.
afterAPI(ok) == IF ok THEN "plc" ELSE "dns"

\* resolveHandle tries the API.
ResolveAPI ==
  /\ pc = "api"
  /\ \E reply \in ApiReplies :
       LET res == resolveHandleAPI(editedPID, reply)
       IN /\ Returns("resolveHandleAPI", reply.err)
          /\ calls' = Append(calls, Call("resolveHandleAPI", editedPID, res.why))
          /\ editedPID' = IF res.ok THEN res.did ELSE editedPID
          /\ pc' = afterAPI(res.ok)
  /\ UNCHANGED <<postData, selfData, mediaMsg, photoNum, host, cmd, response>>
  /\ UNCHANGED <<profileID, plcData, sent>>
  /\ UNCHANGED <<handler, cancelled>>

\* resolveHandle tries DNS.
ResolveDNS ==
  /\ pc = "dns"
  /\ \E reply \in DnsReplies :
       LET res == resolveHandleDNS(editedPID, reply)
       IN /\ Returns("resolveHandleDNS", reply.err)
          /\ calls' = Append(calls, Call("resolveHandleDNS", editedPID, res.why))
          /\ editedPID' = IF res.ok THEN res.did ELSE editedPID
          /\ pc' = IF res.ok THEN "plc" ELSE "http"
  /\ UNCHANGED <<postData, selfData, mediaMsg, photoNum, host, cmd, response>>
  /\ UNCHANGED <<profileID, plcData, sent>>
  /\ UNCHANGED <<handler, cancelled>>

\* resolveHandle giving up with an empty identifier.
exhaustedEmpty(handle) == ""

\* Failed to find DID, use the handle we got.
exhausted(handle) == handle

\* resolveHandle tries .well-known; when it fails too, the handle is kept.
ResolveHTTP ==
  /\ pc = "http"
  /\ \E reply \in HttpReplies :
       LET res == resolveHandleHTTP(editedPID, reply)
       IN /\ Returns("resolveHandleHTTP", reply.err)
          /\ calls' = Append(calls, Call("resolveHandleHTTP", editedPID, res.why))
          /\ editedPID' = IF res.ok THEN res.did ELSE exhausted(editedPID)
  /\ pc' = "plc"
  /\ UNCHANGED <<postData, selfData, mediaMsg, photoNum, host, cmd, response>>
  /\ UNCHANGED <<profileID, plcData, sent>>
  /\ UNCHANGED <<handler, cancelled>>

\* The profile's directory document is fetched, and the identifier becomes
\* an at:// URI (getProfile asks for the actor by the bare identifier).
ResolvePLC ==
  /\ pc = "plc"
  /\ \E reply \in PlcReplies :
       /\ IF plcLookup(editedPID) THEN Returns("resolvePLC", reply.err)
          ELSE inflight = {} /\ inflight' = {}
       /\ plcData' = resolvePLC(editedPID, reply)
       /\ calls' = calls \o plcCall(editedPID, reply)
  /\ editedPID' = profileKey(handler, editedPID)
  /\ pc' = "fetch"
  /\ UNCHANGED <<postData, selfData, mediaMsg, photoNum, host, cmd, response>>
  /\ UNCHANGED <<profileID, sent>>
  /\ UNCHANGED <<handler, cancelled>>

\* The fetch fails: one error page, and the handler returns.
FetchFails ==
  /\ pc = "fetch"
  /\ \E cause \in FetchCauses, status \in Statuses :
       /\ cause # "status" => status = "404 Not Found"
       /\ Returns(fetchName(handler), cause)
       /\ response' = errorPage(fetchMessage(handler, cause, status))
       /\ calls' = Append(calls, Call(fetchName(handler), editedPID, cause))
       /\ pc' = afterFailure(cause)
  /\ UNCHANGED <<postData, selfData, mediaMsg, photoNum, host, cmd>>
  /\ UNCHANGED <<profileID, editedPID, plcData, sent>>
  /\ UNCHANGED <<handler, cancelled>>

\* getProfile, getFeed, getList, getPack: the document is fetched and
\* decoded, and the template is executed.
FetchOther ==
  /\ pc = "fetch"
  /\ handler # "getPost"
  /\ Returns(fetchName(handler), "")
  /\ \E doc \in OtherDocs(handler) :
       response' = [kind |-> "render", arg |-> templateOf(handler),
                    data |-> [view |-> otherView(handler, doc, plcData)]]
  /\ calls' = Append(calls, Call(fetchName(handler), editedPID, "ok"))
  /\ pc' = "done"
  /\ UNCHANGED <<postData, selfData, mediaMsg, photoNum, host, cmd>>
  /\ UNCHANGED <<profileID, editedPID, plcData, sent>>
  /\ UNCHANGED <<handler, cancelled>>

\* getPost: the thread is fetched and decoded, one of threads, and selfData
\* is built from the post.
Fetch(threads) ==
  /\ pc = "fetch"
  /\ handler = "getPost"
  /\ Returns(fetchName(handler), "")
  /\ \E thread \in threads :
       /\ postData' = thread
       /\ selfData' = initSelfData(thread, plcData)
  /\ calls' = Append(calls, Call(fetchName(handler), editedPID, "ok"))
  /\ pc' = "normalize"
  /\ UNCHANGED <<mediaMsg, photoNum, host, cmd, response>>
  /\ UNCHANGED <<profileID, editedPID, plcData, sent>>
  /\ UNCHANGED <<handler, cancelled>>

FetchPost == Fetch(Threads)

\* The threads followed in the requests that start at the identity
\* resolution: posts that are no replies, with MaxImages images, a video or
\* no embed.
FewThreads ==
  {t \in ThreadsOf(FALSE) :
     /\ t.Parent.IsNil
     /\ t.Post.Record.Text # ""
     /\ t.Post.Embed.Type \in {bskyEmbedImages, bskyEmbedVideo, ""}
     /\ t.Post.Embed.Type = bskyEmbedImages => Len(t.Post.Embed.Images) = MaxImages}

FetchFew == Fetch(FewThreads)

\* The normalization switch.
Normalize ==
  /\ pc = "normalize"
  /\ selfData' = normalize(selfData, postData)
  /\ pc' = "postprocess"
  /\ UNCHANGED <<postData, mediaMsg, photoNum, host, cmd, response>>
  /\ UNCHANGED <<profileID, editedPID, plcData, calls, sent>>
  /\ UNCHANGED <<handler, inflight, cancelled>>

\* switch selfData.Type, the list, starter pack, feed and external cases, and
\* the types with no case.
PostProcess ==
  /\ pc = "postprocess"
  /\ selfData.Type \notin {bskyEmbedImages, bskyEmbedVideo}
  /\ selfData' = CASE selfData.Type = bskyEmbedList -> postList(selfData)
                   [] selfData.Type = bskyEmbedPack -> postPack(selfData)
                   [] selfData.Type = bskyEmbedFeed -> postFeed(selfData)
                   [] selfData.Type = bskyEmbedExternal -> postExternal(selfData)
                   [] OTHER -> selfData
  /\ pc' = "describe"
  /\ UNCHANGED <<postData, mediaMsg, photoNum, host, cmd, response>>
  /\ UNCHANGED <<profileID, editedPID, plcData, calls, sent>>
  /\ UNCHANGED <<handler, inflight, cancelled>>

\* switch selfData.Type, case bskyEmbedImages: the photo number is read from
\* the path; a photo number that is no integer ends the request.
PostProcessImages ==
  /\ pc = "postprocess"
  /\ selfData.Type = bskyEmbedImages
  /\ \E pnStr \in PhotoNums :
       LET res == postImages(selfData, pnStr)
       IN /\ photoNum' = pnStr
          /\ selfData' = res.sd
          /\ mediaMsg' = res.msg
          /\ IF res.err
             THEN /\ response' = errorPage("getPost: Invalid photo number")
                  /\ pc' = "done"
             ELSE /\ response' = response
                  /\ pc' = "describe"
  /\ UNCHANGED <<postData, host, cmd>>
  /\ UNCHANGED <<profileID, editedPID, plcData, calls, sent>>
  /\ UNCHANGED <<handler, inflight, cancelled>>

\* switch selfData.Type, case bskyEmbedVideo: the owner's directory document
\* is fetched.
PostProcessVideo ==
  /\ pc = "postprocess"
  /\ selfData.Type = bskyEmbedVideo
  /\ \E reply \in PlcReplies :
       /\ IF plcLookup(selfData.VideoDID) THEN Returns("resolvePLC", reply.err)
          ELSE inflight = {} /\ inflight' = {}
       /\ selfData' = postVideo(selfData, resolvePLC(selfData.VideoDID, reply))
       /\ calls' = calls \o plcCall(selfData.VideoDID, reply)
  /\ pc' = "describe"
  /\ UNCHANGED <<postData, mediaMsg, photoNum, host, cmd, response>>
  /\ UNCHANGED <<profileID, editedPID, plcData, sent>>
  /\ UNCHANGED <<handler, cancelled>>

\* The description details: quoting first, then replies.
Describe ==
  /\ pc = "describe"
  /\ selfData' = [selfData EXCEPT !.Description = compose(selfData.Description, postData)]
  /\ postData' = replyFallback(quoteFallback(postData))
  /\ pc' = "route"
  /\ UNCHANGED <<mediaMsg, photoNum, host, cmd, response>>
  /\ UNCHANGED <<profileID, editedPID, plcData, calls, sent>>
  /\ UNCHANGED <<handler, inflight, cancelled>>

\* The host is read and the response chosen; a mosaic of two or more images
\* goes on to run ffmpeg.
Route ==
  /\ pc = "route"
  /\ \E h \in Hosts :
       /\ host' = h
       /\ IF hostHasPrefix(h, "mosaic.") \/ hostHasPrefix(h, "raw.")
          THEN LET res == IF hostHasPrefix(h, "mosaic.") THEN routeMosaic(selfData)
                          ELSE routeRaw(selfData)
               IN /\ cmd' = res.cmd
                  /\ response' = res.response
                  /\ pc' = IF res.cmd.started THEN "ffmpeg" ELSE "done"
                  /\ selfData' = selfData
          ELSE IF hostHasPrefix(h, "api.")
          THEN /\ selfData' = apiData(selfData)
               /\ response' = [kind |-> "json", arg |-> "application/json",
                               data |-> [originalData |-> postData,
                                         parsedData |-> apiData(selfData),
                                         mediaMsg |-> <<>>]]
               /\ pc' = "done"
               /\ cmd' = cmd
          ELSE /\ response' = [kind |-> "render", arg |-> "post.html",
                               data |-> [originalData |-> ZeroThread, parsedData |-> selfData,
                                         mediaMsg |-> mediaMsg]]
               /\ pc' = "done"
               /\ UNCHANGED <<selfData, cmd>>
  /\ UNCHANGED <<postData, mediaMsg, photoNum>>
  /\ UNCHANGED <<profileID, editedPID, plcData, calls, sent>>
  /\ UNCHANGED <<handler, inflight, cancelled>>

\* cmd.Stdout = w: while it runs, ffmpeg writes its output to the client.
FfmpegWrites ==
  /\ pc = "ffmpeg"
  /\ sent < MaxChunks
  /\ sent' = sent + 1
  /\ UNCHANGED <<pc, postData, selfData, mediaMsg, photoNum, host, cmd, response>>
  /\ UNCHANGED <<profileID, editedPID, plcData, calls>>
  /\ UNCHANGED <<handler, inflight, cancelled>>

\* cmd.Run() returns: ffmpeg exited zero, or it failed to start or exited
\* non-zero and http.Error is called.
Ffmpeg ==
  /\ pc = "ffmpeg"
  /\ \E ok \in BOOLEAN :
       response' = IF ok THEN response
                   ELSE IF sent = 0 THEN httpError("genMosaic: Failed to run")
                   ELSE trailingError("genMosaic: Failed to run")
  /\ pc' = "done"
  /\ UNCHANGED <<postData, selfData, mediaMsg, photoNum, host, cmd, sent>>
  /\ UNCHANGED <<profileID, editedPID, plcData, calls>>
  /\ UNCHANGED <<handler, inflight, cancelled>>

\* The client disconnects while ffmpeg runs: r.Context() is cancelled.
Cancel ==
  /\ pc = "ffmpeg"
  /\ ~cancelled
  /\ cancelled' = TRUE
  /\ UNCHANGED <<pc, postData, selfData, mediaMsg, photoNum, host, cmd, response>>
  /\ UNCHANGED <<profileID, editedPID, plcData, calls, sent>>
  /\ UNCHANGED <<handler, inflight>>

\* A subprocess that is not bound to the request's context: the cancellation
\* does nothing to it.
FfmpegOutlives ==
  /\ pc = "ffmpeg"
  /\ cancelled
  /\ UNCHANGED vars

\* exec.CommandContext(r.Context(), ...): once the context is cancelled the
\* process is killed, cmd.Run() returns the error and http.Error is called.
FfmpegKilled ==
  /\ pc = "ffmpeg"
  /\ cancelled
  /\ response' = IF sent = 0 THEN httpError("genMosaic: Failed to run")
                 ELSE trailingError("genMosaic: Failed to run")
  /\ pc' = "done"
  /\ UNCHANGED <<postData, selfData, mediaMsg, photoNum, host, cmd, sent>>
  /\ UNCHANGED <<profileID, editedPID, plcData, calls>>
  /\ UNCHANGED <<handler, inflight, cancelled>>

\* The handler from the normalization switch on, and the failures of the fetch.
Rest ==
  \/ FetchFails
  \/ Normalize
  \/ PostProcess
  \/ PostProcessImages
  \/ PostProcessVideo
  \/ Describe
  \/ Route
  \/ FfmpegWrites
  \/ Ffmpeg
  \/ Cancel
  \/ FfmpegKilled
  \/ Issue

Next ==
  \/ FetchPost
  \/ Rest

\* The handler from its first line on.
NextRequest ==
  \/ Start
  \/ ResolveAPI
  \/ ResolveDNS
  \/ ResolveHTTP
  \/ ResolvePLC
  \/ FetchFew
  \/ FetchOther
  \/ Rest

Spec == Init /\ [][Next]_vars

\* The same, with what exec.CommandContext guarantees: a subprocess whose
\* context is cancelled is killed, and cmd.Run() returns.
SpecCancel == Init /\ [][Next]_vars /\ WF_vars(FfmpegKilled)

\* The same, with every step of the handler taken in the end: the fetch
\* returns or times out, the handler goes on, ffmpeg exits or is killed.
SpecFair == Init /\ [][Next]_vars /\ WF_vars(Next)

\* Whole requests, identity resolution included, on the few threads.
SpecRequest == InitRequest /\ [][NextRequest]_vars

(* ------------------------- shared by the properties -------------------- *)

\* The response written is r.
Answered(r) == response.kind = r.kind /\ response.arg = r.arg

\* The thread has been fetched and the normalization switch has run.
Normalized ==
  \/ pc \in {"postprocess", "describe", "route", "ffmpeg"}
  \/ pc = "done" /\ postData # ZeroThread

\* The post-processing switch has run too and the request went on.
PostProcessed ==
  \/ pc \in {"describe", "route", "ffmpeg"}
  \/ pc = "done" /\ host # NotRead

\* The description composer has run too.
Described ==
  \/ pc \in {"route", "ffmpeg"}
  \/ pc = "done" /\ host # NotRead

Kinds ==
  {bskyEmbedImages, bskyEmbedExternal, bskyEmbedVideo, bskyEmbedList, bskyEmbedFeed,
   bskyEmbedPack, unknownType}

RecognizedEmbedTags ==
  {bskyEmbedImages, bskyEmbedExternal, bskyEmbedVideo, bskyEmbedQuote, bskyEmbedText}
RecognizedMediaTags == {bskyEmbedImages, bskyEmbedExternal, bskyEmbedVideo}

ImagesZero(sd) == sd.Images = <<>>
ExternalZero(sd) == sd.External = ZeroExternal
VideoZero(sd) ==
  /\ sd.VideoCID = "" /\ sd.VideoDID = "" /\ sd.Thumbnail = ""
  /\ sd.AspectRatio = ZeroAspectRatio /\ ~sd.IsVideo
CommonZero(sd) == sd.CommonEmbeds = ZeroCommonEmbeds

\* The kind and the media payload of a canonical record.
Payload(sd) ==
  [Type |-> sd.Type, Images |-> sd.Images, External |-> sd.External, VideoCID |-> sd.VideoCID,
   VideoDID |-> sd.VideoDID, Thumbnail |-> sd.Thumbnail, AspectRatio |-> sd.AspectRatio,
   IsVideo |-> sd.IsVideo, CommonEmbeds |-> sd.CommonEmbeds]

\* The main post is a text post for the switch: its embed has none of the
\* five $types the switch has a case for.
TextOnly(thread) == thread.Post.Embed.Type \notin RecognizedEmbedTags
IsReply(thread) == ~thread.Parent.IsNil

(* ------------------------------- C1 ------------------------------------ *)

Exclusive(sd) ==
  /\ sd.Type \in Kinds
  /\ sd.Type # bskyEmbedImages => ImagesZero(sd)
  /\ sd.Type # bskyEmbedExternal => ExternalZero(sd)
  /\ sd.Type # bskyEmbedVideo => VideoZero(sd)
  /\ sd.Type \notin CommonTypes => CommonZero(sd)

\* C1: once the normalization switch has run, for every thread shape, the
\* type of selfData is one of the seven kinds and every payload group other
\* than the one of that kind is zero-valued (Unknown carries none).
C1_Exclusive == Normalized => Exclusive(selfData)

\* A reply whose parent quotes with a video beside the quote: the video
\* group alone is populated.
C1_Witness ==
  /\ pc = "postprocess"
  /\ TextOnly(postData) /\ IsReply(postData)
  /\ postData.Parent.Post.Embed.Type = bskyEmbedQuote
  /\ selfData.Type = bskyEmbedVideo /\ selfData.VideoCID # "" /\ selfData.IsVideo

(* ------------------------------- C2 ------------------------------------ *)

MediaQuoteVideo ==
  /\ Normalized
  /\ postData.Post.Embed.Type = bskyEmbedQuote
  /\ postData.Post.Embed.Media.Type = bskyEmbedVideo

\* C2 as claimed: the owner of a video beside a quote is the author of the
\* quoted record.
C2_Original ==
  MediaQuoteVideo => selfData.VideoDID = postData.Post.Embed.Record.Record.Author.DID

\* C2: when the main post's embed is a quote with media and the media is a
\* video, the video owner is the author of the main post (who uploaded the
\* media), and not the author of the quoted record.
C2_OuterAuthor ==
  MediaQuoteVideo =>
    /\ selfData.VideoDID = postData.Post.Author.DID
    /\ selfData.VideoDID # postData.Post.Embed.Record.Record.Author.DID

C2_Witness ==
  /\ pc = "postprocess" /\ MediaQuoteVideo
  /\ selfData.Type = bskyEmbedVideo
  /\ postData.Post.Author.DID # postData.Post.Embed.Record.Record.Author.DID

(* ------------------------------- C3 ------------------------------------ *)

\* The parent post taken as the main post of a thread that is no reply.
AsMain(parent) == [Post |-> parent, Parent |-> NoParent]

\* What the main dispatch yields for a thread.
MainPayload(thread) == Payload(normalize(initSelfData(thread, plcData), thread))

ParentDecides == pc = "postprocess" /\ TextOnly(postData) /\ IsReply(postData)

ParentQuotesWithNested ==
  /\ postData.Parent.Post.Embed.Type = bskyEmbedText
  /\ Len(postData.Parent.Post.Embed.Record.Embeds) > 0

\* C3 as claimed: the parent's embed is dispatched as a main post's is, the
\* nested embeds of a quoted record included.
C3_Original == ParentDecides => Payload(selfData) = MainPayload(AsMain(postData.Parent.Post))

\* C3: for a text-only reply, the kind and payload taken from the parent's
\* embed are those the same embed yields on a main post, except for a
\* quote-only embed whose quoted record carries nested embeds: the parent
\* dispatch does not look at nested embeds and goes by the quoted record's
\* own $type, which for a quoted post is Unknown with no payload.
C3_ParentDispatch ==
  ParentDecides =>
    IF ParentQuotesWithNested
    THEN Payload(selfData) = Payload(commonSwitch(ZeroOwnData, postData.Parent.Post.Embed.Record))
         /\ (postData.Parent.Post.Embed.Record.Type = bskyEmbedTextQuote
               => selfData.Type = unknownType /\ ImagesZero(selfData) /\ VideoZero(selfData))
    ELSE Payload(selfData) = MainPayload(AsMain(postData.Parent.Post))

C3_Witness ==
  /\ ParentDecides /\ ~ParentQuotesWithNested
  /\ postData.Parent.Post.Embed.Type = bskyEmbedQuote
  /\ selfData.Type = bskyEmbedVideo
  /\ selfData.VideoDID = postData.Parent.Post.Author.DID

(* ------------------------------- C4 ------------------------------------ *)

ParentHasImages ==
  /\ pc = "postprocess" /\ IsReply(postData)
  /\ postData.Parent.Post.Embed.Type = bskyEmbedImages

FromParentImages ==
  /\ selfData.Type = bskyEmbedImages
  /\ selfData.Images = postData.Parent.Post.Embed.Images

\* C4 as claimed: every reply to a post with images shows the parent's images.
C4_Original == ParentHasImages => FromParentImages

\* C4: for every text-only reply (the reply's own embed has none of the five
\* $types of the switch) whose parent has an images embed, the kind is Images
\* and the image list is the parent's; a reply with an embed of its own is
\* normalized from that embed.
C4_TextReply ==
  ParentHasImages =>
    IF TextOnly(postData) THEN FromParentImages
    ELSE Payload(selfData) = MainPayload(AsMain(postData.Post))

C4_Witness ==
  /\ ParentHasImages /\ TextOnly(postData) /\ FromParentImages
  /\ Len(selfData.Images) = MaxImages
  /\ selfData.Images # postData.Post.Embed.Images

(* ------------------------------- C5 ------------------------------------ *)

\* Places where the switch meets a $type it has no case for.
UnknownMainTag == postData.Post.Embed.Type = otherTag
UnknownMediaTag ==
  /\ postData.Post.Embed.Type = bskyEmbedQuote
  /\ postData.Post.Embed.Media.Type \notin RecognizedMediaTags
HasNested ==
  /\ postData.Post.Embed.Type = bskyEmbedText
  /\ Len(postData.Post.Embed.Record.Embeds) > 0
UnknownNestedTag == HasNested /\ postData.Post.Embed.Record.Embeds[1].Type = otherTag
UnknownNestedMediaTag ==
  /\ HasNested
  /\ postData.Post.Embed.Record.Embeds[1].Type = bskyEmbedQuote
  /\ postData.Post.Embed.Record.Embeds[1].Media.Type \notin RecognizedMediaTags
UnknownRecordTag ==
  /\ postData.Post.Embed.Type = bskyEmbedText
  /\ Len(postData.Post.Embed.Record.Embeds) = 0
  /\ postData.Post.Embed.Record.Type = otherTag
UnknownParentTag ==
  /\ TextOnly(postData) /\ IsReply(postData)
  /\ LET pe == postData.Parent.Post.Embed
     IN \/ pe.Type = otherTag
        \/ pe.Type = bskyEmbedQuote /\ pe.Media.Type \notin RecognizedMediaTags
        \/ pe.Type = bskyEmbedText /\ pe.Record.Type = otherTag

NoPayload(sd) ==
  /\ sd.Type = unknownType
  /\ ImagesZero(sd) /\ ExternalZero(sd) /\ VideoZero(sd) /\ CommonZero(sd)

\* No error page answers the request: nothing is written up to the router,
\* and the default and the JSON view answer with the page and the document.
NoErrorPage ==
  /\ pc \in {"postprocess", "describe", "route"} => response = NoResponse
  /\ pc = "done" /\ host = "xbsky.app" => response.kind = "render"
  /\ pc = "done" /\ host = "api.xbsky.app" => response.kind = "json"

\* C5 as claimed: a $type the code does not know, at any place the switch
\* looks at, gives Unknown with no payload and no error, replies included.
C5_Original ==
  Normalized /\ (UnknownMainTag \/ UnknownMediaTag \/ UnknownNestedTag \/ UnknownNestedMediaTag
                   \/ UnknownRecordTag \/ UnknownParentTag)
    => NoPayload(selfData) /\ NoErrorPage

\* C5: an unknown $type of the media beside a quote (of the main post, of
\* the first nested embed, of the parent), an unknown $type of the quoted
\* record and an unknown $type of the parent's embed give Unknown with no
\* payload, and so does an unknown $type of the main embed when the post is
\* no reply; normalization writes no error page for any of them, and the
\* default and JSON views answer as usual.  An unknown $type of the main embed
\* of a reply is taken for a text post, so the parent's embed decides, and an
\* unknown $type of the first nested embed leaves the decision to the $type
\* of that embed's record (Unknown unless it is a list, feed or starter pack).
C5_UnknownTags ==
  Normalized =>
    /\ (UnknownMainTag /\ ~IsReply(postData)) \/ UnknownMediaTag \/ UnknownNestedMediaTag
         \/ UnknownRecordTag \/ UnknownParentTag
         \/ (UnknownNestedTag /\ postData.Post.Embed.Record.Embeds[1].Record.Type \notin CommonTypes)
       => NoPayload(selfData) /\ NoErrorPage
    /\ UnknownMainTag /\ IsReply(postData) /\ pc = "postprocess"
       => Payload(selfData) = MainPayload([postData EXCEPT !.Post.Embed.Type = ""])
    /\ UnknownNestedTag /\ postData.Post.Embed.Record.Embeds[1].Record.Type \in CommonTypes
       => selfData.Type = postData.Post.Embed.Record.Embeds[1].Record.Type

C5_Witness ==
  /\ pc = "done" /\ host = "xbsky.app"
  /\ UnknownMediaTag /\ IsReply(postData)
  /\ NoPayload(selfData) /\ response.kind = "render"

(* ----------------------------- C6 and C7 ------------------------------- *)

\* The image list as the normalization switch left it.
NormImages == normalize(initSelfData(postData, plcData), postData).Images

InvalidPhoto == errorPage("getPost: Invalid photo number")

\* The photo number has been read: the kind is Images and the images case
\* of the post-processing switch has run.
PhotoRead == photoNum # NotRead

\* C6 as claimed: a photo index of 0, or one that is no integer, leaves the
\* image list as normalized and the request goes on.
C6_Original ==
  PhotoRead /\ photoNum \in {"0", "abc"} =>
    /\ selfData.Images = NormImages
    /\ ~Answered(InvalidPhoto)

\* C6: a photo index below 1 is taken for 1 (with two or more images the
\* list becomes the first image and the message "Photo 1 of N", with fewer
\* it is left as normalized), and the request goes on; a photo index that is
\* no integer leaves the list as normalized but ends the request with the
\* error page "getPost: Invalid photo number"; with no photo index the list
\* is left as normalized and the request goes on.
C6_PhotoIndex ==
  PhotoRead =>
    /\ photoNum \in {"0", "-1"} =>
         /\ IF Len(NormImages) > 1
            THEN /\ selfData.Images = <<NormImages[1]>>
                 /\ mediaMsg = <<"Photo ", "1", " of ", ToString(Len(NormImages))>>
            ELSE selfData.Images = NormImages /\ mediaMsg = <<>>
         /\ ~Answered(InvalidPhoto)
    /\ photoNum = "abc" =>
         selfData.Images = NormImages /\ pc = "done" /\ Answered(InvalidPhoto)
    /\ photoNum = "" =>
         selfData.Images = NormImages /\ mediaMsg = <<>> /\ ~Answered(InvalidPhoto)

C6_Witness ==
  /\ pc = "describe" /\ photoNum = "0"
  /\ Len(NormImages) = MaxImages
  /\ selfData.Images = <<NormImages[1]>>

\* The photo index as a number, for the indices that are positive integers.
PhotoIndex == Atoi(photoNum).val
PositivePhoto == PhotoRead /\ ~Atoi(photoNum).err /\ Atoi(photoNum).val >= 1

Narrowed(i) ==
  /\ selfData.Images = <<NormImages[i]>>
  /\ mediaMsg = <<"Photo ", ToString(i), " of ", ToString(Len(NormImages))>>

Untouched == selfData.Images = NormImages /\ mediaMsg = <<>>

\* C7 as claimed: an index in 1..N narrows the list and gives the message
\* for every N >= 1; a larger index does neither.
C7_Original ==
  PositivePhoto => IF PhotoIndex <= Len(NormImages) THEN Narrowed(PhotoIndex) ELSE Untouched

\* C7: with N >= 2 images, a photo index i in 1..N makes the list the single
\* image original[i-1] and the message "Photo i of N"; with one image (and
\* with none) the list is left as it is and there is no message; an index
\* above N leaves the list untouched with no message.
C7_Narrowing ==
  PositivePhoto =>
    IF Len(NormImages) >= 2 /\ PhotoIndex <= Len(NormImages)
    THEN Narrowed(PhotoIndex) /\ Len(selfData.Images) = 1
    ELSE Untouched

C7_Witness ==
  /\ pc = "describe" /\ PositivePhoto
  /\ PhotoIndex = MaxImages /\ Len(NormImages) = MaxImages
  /\ Narrowed(MaxImages)

(* ------------------------- C8, C9 and C10 ------------------------------ *)

Blank == <<NL, NL>>

\* The blank line put before a section that follows the text d.
BlankAfter(d) == IF d = <<>> THEN <<>> ELSE Blank

\* "{label}{displayName} (@{handle}):\n{text}", the display name falling
\* back to the handle.
ExpectedSection(label, author, text) ==
  <<label>> \o Str(IF author.DisplayName = "" THEN author.Handle ELSE author.DisplayName)
    \o <<" (@">> \o Str(author.Handle) \o <<"):", NL>> \o Str(text)

\* The main post quotes a post: as a text quote, or beside media.
QuotesText(thread) ==
  thread.Post.Embed.Type = bskyEmbedText /\ thread.Post.Embed.Record.Type = bskyEmbedTextQuote
QuotesWithMedia(thread) == thread.Post.Embed.Type = bskyEmbedQuote
QuoteAndReply(thread) == (QuotesText(thread) \/ QuotesWithMedia(thread)) /\ IsReply(thread)

ExpectedQuote(thread) ==
  LET rec == thread.Post.Embed.Record
  IN IF QuotesText(thread)
     THEN ExpectedSection("(icon) Quoting ", rec.Author, rec.Value.Text)
     ELSE ExpectedSection("(icon) Quoting ", rec.Record.Author, rec.Record.Value.Text)

ExpectedReply(thread) ==
  ExpectedSection("(icon) Replying to ", thread.Parent.Post.Author, thread.Parent.Post.Record.Text)

\* C8: for a post that quotes (a text quote, or a quote with media) and is a
\* reply, the composer appends to the description it is given the quoting
\* section, one blank line, and the reply section, in that order; the quoting
\* section is preceded by a blank line exactly when the description it is
\* appended to is not empty.
C8_QuoteThenReply ==
  [][pc = "describe" /\ QuoteAndReply(postData) =>
       selfData'.Description =
         selfData.Description \o BlankAfter(selfData.Description) \o ExpectedQuote(postData)
           \o Blank \o ExpectedReply(postData)]_vars

\* The position of the first token tok of the text d, 0 when there is none.
IndexOf(d, tok) ==
  IF \E i \in 1..Len(d) : d[i] = tok
  THEN CHOOSE i \in 1..Len(d) : d[i] = tok /\ \A j \in 1..(i - 1) : d[j] # tok
  ELSE 0

\* A quote and reply with no text of its own: the description opens with the
\* quoting section, and the reply section comes after one blank line.
C8_Witness ==
  /\ pc = "route" /\ QuoteAndReply(postData)
  /\ postData.Post.Record.Text = ""
  /\ selfData.Type = unknownType
  /\ Head(selfData.Description) = "(icon) Quoting "
  /\ LET r == IndexOf(selfData.Description, "(icon) Replying to ")
     IN /\ r > 3
        /\ selfData.Description[r - 1] = NL /\ selfData.Description[r - 2] = NL
        /\ selfData.Description[r - 3] # NL

\* C9: for a post with empty text the composed description does not begin
\* with a blank line: every section the composer appends (the list, feed or
\* starter-pack summary, the quoting section, the reply section) gets its
\* blank line only when text precedes it.  (The kinds with those sections:
\* the title and description of an external link are left aside.)
C9_NoLeadingBlank ==
  Described /\ postData.Post.Record.Text = "" /\ selfData.Type # bskyEmbedExternal =>
    selfData.Description = <<>> \/ Head(selfData.Description) # NL

\* The summary block of a list, feed or starter pack c under the given label.
ExpectedBlock(c, label) ==
  Str(c.Name) \o <<NL, label>>
    \o Str(IF c.Creator.DisplayName = "" THEN c.Creator.Handle ELSE c.Creator.DisplayName)
    \o <<" (@">> \o Str(c.Creator.Handle) \o <<")", NL, NL>> \o Str(c.Description)

\* The text d contains the tokens b in a row.
Contains(d, b) ==
  \E i \in 0..(Len(d) - Len(b)) : SubSeq(d, i + 1, i + Len(b)) = b

\* The list, feed or starter pack as the normalization switch took it.
NormCommon == normalize(initSelfData(postData, plcData), postData).CommonEmbeds

ListLabels == {"(icon) A moderation list by ", "(icon) A curator list by "}

\* The labels a kind can be shown under.
LabelsOf(kind) ==
  CASE kind = bskyEmbedList -> ListLabels
    [] kind = bskyEmbedPack -> {"(icon) A starter pack by "}
    [] kind = bskyEmbedFeed -> {"(icon) A feed by "}
    [] OTHER -> {}

HasSummary == \E label \in LabelsOf(selfData.Type) : Contains(selfData.Description, ExpectedBlock(NormCommon, label))

\* C10 as claimed: every list, feed and starter pack gets its summary block,
\* a list whatever its purpose.
C10_Original == PostProcessed /\ selfData.Type \in CommonTypes => HasSummary

\* C10: for a feed, a starter pack, and a list whose purpose is modlist or
\* curatelist, the description contains the summary block: the name, the
\* label line of the kind "by {displayName} (@{handle})" with the display
\* name falling back to the handle, and the description; the purpose selects
\* between the moderation and the curator label.  A list of any other purpose
\* gets no summary: post-processing leaves the description the post text.
C10_Summary ==
  PostProcessed /\ selfData.Type \in CommonTypes =>
    LET has(label) == Contains(selfData.Description, ExpectedBlock(NormCommon, label))
    IN CASE selfData.Type = bskyEmbedFeed -> has("(icon) A feed by ")
         [] selfData.Type = bskyEmbedPack -> has("(icon) A starter pack by ")
         [] NormCommon.Purpose = modList -> has("(icon) A moderation list by ")
         [] NormCommon.Purpose = curateList -> has("(icon) A curator list by ")
         [] OTHER ->
              /\ ~HasSummary
              /\ pc = "describe" => selfData.Description = Str(postData.Post.Record.Text)

\* A curator list whose creator has no display name: the label line names
\* the creator by the handle.
C10_Witness ==
  /\ pc = "describe" /\ selfData.Type = bskyEmbedList
  /\ NormCommon.Purpose = curateList /\ NormCommon.Creator.DisplayName = ""
  /\ HasSummary
  /\ Contains(selfData.Description, <<"(icon) A curator list by ", NormCommon.Creator.Handle>>)

(* ------------------------------ C11 ------------------------------------ *)

\* The router handed the images to genMosaic.
MosaicAsked ==
  /\ pc \in {"ffmpeg", "done"}
  /\ host \in {"mosaic.xbsky.app", "raw.xbsky.app"}
  /\ selfData.Type = bskyEmbedImages

\* The declared widths of the images, summed.
RECURSIVE TotalWidth(_, _)
TotalWidth(images, n) ==
  IF n = 0 THEN 0 ELSE images[n].AspectRatio.Width + TotalWidth(images, n - 1)

\* floor(total / n)
FloorDiv(total, n) == CHOOSE k \in 0..total : k * n <= total /\ (k + 1) * n > total

\* The invocation scales every input to width w and stacks them in order.
ScalesAndStacks(images, w) ==
  /\ cmd.started
  /\ Len(cmd.inputs) = Len(images)
  /\ \A i \in 1..Len(images) :
       /\ cmd.inputs[i] = images[i].FullSize
       /\ cmd.scale[i] = [src |-> i - 1, width |-> w, out |-> i - 1]
  /\ cmd.stack = [i \in 1..Len(images) |-> i - 1]

Started == cmd.started

\* C12 as claimed: compositing asked for one image or none answers with a
\* redirect.
C12_Original == MosaicAsked /\ Len(selfData.Images) <= 1 => response.kind = "redirect"

\* C12: in every view mode the subprocess is started only when the kind is
\* Images and more than one image is left after narrowing; compositing asked
\* for exactly one image answers with a redirect to that image, and
\* compositing asked for no image answers with the error page
\* "genMosaic: No images".
C12_OnlyMosaic ==
  /\ Started =>
       /\ selfData.Type = bskyEmbedImages
       /\ Len(selfData.Images) > 1
       /\ host \in {"mosaic.xbsky.app", "raw.xbsky.app"}
  /\ pc \in {"start", "api", "dns", "http", "plc", "fetch", "normalize",
             "postprocess", "describe", "route"} => ~Started
  /\ MosaicAsked /\ Len(selfData.Images) = 1 =>
       ~Started /\ Answered(redirect(selfData.Images[1].FullSize))
  /\ MosaicAsked /\ Len(selfData.Images) = 0 =>
       ~Started /\ Answered(errorPage("genMosaic: No images"))

\* Compositing is asked for a list narrowed to its second image.
C12_Witness ==
  /\ MosaicAsked
  /\ photoNum = "2"
  /\ Len(selfData.Images) = 1
  /\ response.kind = "redirect"

(* ------------------------------ C13 ------------------------------------ *)

Strategies == <<"resolveHandleAPI", "resolveHandleDNS", "resolveHandleHTTP">>

\* The strategies of resolveHandle tried so far, in order.
Tried == SelectSeq(calls, LAMBDA c : c.fn \in {Strategies[1], Strategies[2], Strategies[3]})

\* resolveHandle has returned.
Resolved == pc \notin {"start", "api", "dns", "http"}

\* The identifiers each strategy produces when it succeeds, in this model.
Produced(fn) ==
  CASE fn = Strategies[1] -> {"did:plc:api"}
    [] fn = Strategies[2] -> {"did:plc:dns", "dns"}
    [] fn = Strategies[3] -> {"did:plc:http"}

\* The identifier getPost goes on with is id.
GoesOnWith(id) ==
  editedPID = IF pc = "plc" \/ handler = "getProfile" THEN id ELSE "at://" \o id

\* C13: the strategies are tried in the order API, DNS, .well-known; one is
\* tried only if every earlier one failed, none is tried after one succeeded,
\* and the identifier returned is the one the first successful strategy
\* produced. When the API fails and DNS succeeds, the result is the DNS value
\* and .well-known is not tried.
C13_StrictOrder ==
  /\ Len(Tried) <= 3
  /\ \A i \in 1..Len(Tried) :
       /\ Tried[i].fn = Strategies[i]
       /\ Tried[i].arg = profileID
       /\ \A j \in 1..(i - 1) : Tried[j].result # "ok"
  /\ Resolved /\ Tried # <<>> /\ Tried[Len(Tried)].result = "ok" =>
       \E id \in Produced(Tried[Len(Tried)].fn) : GoesOnWith(id)
  /\ Resolved /\ Len(Tried) >= 2 /\ Tried[1].result # "ok" /\ Tried[2].result = "ok" =>
       Len(Tried) = 2 /\ \E id \in Produced(Strategies[2]) : GoesOnWith(id)

\* The API failed, DNS succeeded, and the thread is asked for the DNS value.
C13_Witness ==
  /\ pc = "fetch"
  /\ Len(Tried) = 2
  /\ Tried[1].result = "status"
  /\ Tried[2].result = "ok"
  /\ editedPID = "at://did:plc:dns"

(* ------------------------------ C14 ------------------------------------ *)

\* All three strategies were tried and failed.
AllFailed == Len(Tried) = 3 /\ \A i \in 1..3 : Tried[i].result # "ok"

\* C14: when all three strategies fail, whatever the causes, resolveHandle
\* returns its input unchanged, the thread is asked for that string, and the
\* resolver writes no response.
C14_FallsThrough ==
  Resolved /\ AllFailed =>
    /\ GoesOnWith(profileID)
    /\ pc \in {"plc", "fetch"} => response = NoResponse
    /\ \A i \in 1..3 : Tried[i].arg = profileID

\* The API answered with no DID, DNS with no record, .well-known with a body
\* that cannot be read, and the thread is asked for the handle.
C14_Witness ==
  /\ pc = "fetch"
  /\ AllFailed
  /\ Tried[1].result = "prefix"
  /\ Tried[2].result = "empty"
  /\ Tried[3].result = "read"
  /\ profileID = "post.test"
  /\ editedPID = "at://post.test"

(* ------------------------------ C15 ------------------------------------ *)

\* The profile identifier is a DID of a method resolvePLC knows.
DurableProfile == HasPrefix(profileID, "did:plc:") \/ HasPrefix(profileID, "did:web:")

\* C15: when the profile identifier is a did:plc or did:web identifier, none
\* of the three strategies of resolveHandle is tried, and the identifier the
\* later calls use is the input.
C15_SkipsResolution ==
  DurableProfile =>
    /\ Tried = <<>>
    /\ Resolved => GoesOnWith(profileID)

(* ------------------------------ C16 ------------------------------------ *)

\* Entry i of the document is a personal data server.
IsPds(doc, i) ==
  doc.Service[i].ID = "#atproto_pds" /\ doc.Service[i].Type = "AtprotoPersonalDataServer"

\* The playback base the claim describes, for owner did and the directory's
\* answer reply.
ExpectedPDS(did, reply) ==
  IF /\ plcLookup(did)
     /\ reply.err = ""
     /\ \E i \in 1..Len(reply.doc.Service) : IsPds(reply.doc, i)
  THEN LET first == CHOOSE i \in 1..Len(reply.doc.Service) :
                      IsPds(reply.doc, i) /\ \A j \in 1..(i - 1) : ~IsPds(reply.doc, j)
       IN reply.doc.Service[first].Endpoint
  ELSE "https://bsky.social"

\* The lookups of directory documents made so far, in order.
Lookups == SelectSeq(calls, LAMBDA c : c.fn = "resolvePLC")

\* C16: for a video the playback base is resolved from the directory document
\* of the video's owner (VideoDID), not of the profile: the step that handles
\* the video looks up VideoDID, if it is a did:plc or did:web identifier, and
\* sets PDS to the endpoint of the first entry with id "#atproto_pds" and type
\* "AtprotoPersonalDataServer"; when the lookup fails, the identifier is of
\* another method, or no entry matches, PDS is "https://bsky.social".
C16_VideoPDS ==
  [][pc = "postprocess" /\ pc' = "describe" /\ selfData.Type = bskyEmbedVideo =>
       \E reply \in PlcReplies :
         /\ selfData'.PDS = ExpectedPDS(selfData.VideoDID, reply)
         /\ selfData'.VideoDID = selfData.VideoDID
         /\ Lookups' = Lookups \o
              (IF plcLookup(selfData.VideoDID)
               THEN <<Call("resolvePLC", selfData.VideoDID,
                           IF reply.err # "" THEN reply.err ELSE "ok")>>
               ELSE <<>>)
         /\ plcData' = plcData]_vars

\* The video of the post replied to: its owner's document was looked up, and
\* the first of its two personal data servers is the playback base.
C16_Witness ==
  /\ pc = "describe"
  /\ selfData.Type = bskyEmbedVideo
  /\ selfData.VideoDID = "did:web:parent.test"
  /\ selfData.VideoDID # profileID
  /\ Lookups[Len(Lookups)] = Call("resolvePLC", "did:web:parent.test", "ok")
  /\ selfData.PDS = "https://pds.test"

(* ------------------------------ C17 ------------------------------------ *)

\* The router has answered a request to the raw. host.
RawRouted == pc \in {"ffmpeg", "done"} /\ host = "raw.xbsky.app"

\* The answer of genMosaic before ffmpeg has run, by the number of images.
MosaicResult ==
  LET images == selfData.Images
  IN CASE Len(images) = 0 -> ~Started /\ Answered(errorPage("genMosaic: No images"))
       [] Len(images) = 1 -> ~Started /\ Answered(redirect(images[1].FullSize))
       [] OTHER -> Started /\ response.kind \in {"stream", "error500", "partial"}

NoMedia == errorPage("getPost: No suitable media found")

\* C17: on the raw. host the response follows from the kind: Images, what
\* genMosaic answers; External, a redirect to the rewritten GIF URI if it is
\* a GIF, else to the thumbnail if there is one, else a failure; Video, a
\* redirect to {PDS}/xrpc/com.atproto.sync.getBlob?cid={VideoCID}&did={VideoDID};
\* list, feed and starter pack, a redirect to the avatar if there is one,
\* else a failure; unknown, and any other kind, a failure. The page is never
\* rendered and no JSON is written.
C17_RawRedirect ==
  RawRouted =>
    /\ response.kind \notin {"render", "json", "none"}
    /\ selfData.Type = bskyEmbedImages => MosaicResult
    /\ selfData.Type = bskyEmbedExternal =>
         /\ ~Started
         /\ IF selfData.IsGif THEN Answered(redirect(selfData.External.URI))
            ELSE IF selfData.External.Thumb # "" THEN Answered(redirect(selfData.External.Thumb))
            ELSE Answered(NoMedia)
    /\ selfData.Type = bskyEmbedVideo =>
         /\ ~Started
         /\ Answered(redirect(selfData.PDS \o "/xrpc/com.atproto.sync.getBlob?cid="
                                \o selfData.VideoCID \o "&did=" \o selfData.VideoDID))
    /\ selfData.Type \in {bskyEmbedList, bskyEmbedFeed, bskyEmbedPack} =>
         /\ ~Started
         /\ IF selfData.CommonEmbeds.Avatar # ""
            THEN Answered(redirect(selfData.CommonEmbeds.Avatar))
            ELSE Answered(NoMedia)
    /\ selfData.Type \notin Kinds \ {unknownType} =>
         ~Started /\ Answered(errorPage("getPost: Invalid type"))

\* A GIF with a thumbnail is asked for on the raw. host: the redirect goes to
\* the rewritten GIF URI.
C17_Witness ==
  /\ RawRouted
  /\ selfData.Type = bskyEmbedExternal
  /\ selfData.IsGif
  /\ selfData.External.Thumb # ""
  /\ Answered(redirect("https://media.tenor.com/abc.gif"))

(* ------------------------------ C18 ------------------------------------ *)

\* The router has answered a request to the mosaic. host.
MosaicRouted == pc \in {"ffmpeg", "done"} /\ host = "mosaic.xbsky.app"

\* C18: on the mosaic. host genMosaic is called if and only if the kind is
\* Images; for every other kind the response is the error page
\* "getPost: Invalid type", and there is no redirect, no subprocess and no
\* rendered page.
C18_MosaicOnly ==
  MosaicRouted =>
    IF selfData.Type = bskyEmbedImages
    THEN MosaicResult
    ELSE /\ ~Started
         /\ pc = "done"
         /\ Answered(errorPage("getPost: Invalid type"))

\* A video is asked for on the mosaic. host and the error page is the answer.
C18_Witness ==
  /\ MosaicRouted
  /\ selfData.Type = bskyEmbedVideo
  /\ Answered(errorPage("getPost: Invalid type"))

(* ------------------------------ C19 ------------------------------------ *)

\* C19: no step after the decoding of the thread modifies it, and on the
\* api. host the "originalData" written is the thread as decoded, the display
\* names of the quoted record's author and of the parent's author included.
C19_RawUntouched ==
  [][/\ pc # "fetch" => postData' = postData
     /\ pc = "route" /\ host' = "api.xbsky.app" =>
          response'.kind = "json" /\ response'.data.originalData = postData]_vars

(* ------------------------------ C20 ------------------------------------ *)

\* cmd.Run() returned an error and http.Error was called.
FailedToRun ==
  /\ pc = "done"
  /\ Started
  /\ response.kind \in {"error500", "partial"}
  /\ response.arg = "genMosaic: Failed to run"

\* C20: when ffmpeg fails to start or exits non-zero, genMosaic answers with
\* the internal error, and no image output was sent to the client: the error
\* is all there is in the body.
C20_NoPartialOutput == FailedToRun => sent = 0 /\ response.kind = "error500"

(* ------------------------------ C21 ------------------------------------ *)

\* The subprocess genMosaic started is running.
Running == pc = "ffmpeg"

\* C21: when the request is cancelled while the subprocess genMosaic started
\* is running, the subprocess is eventually terminated and genMosaic returns:
\* no subprocess keeps running after the request has ended.
C21_KilledOnCancel == (Running /\ cancelled) ~> (pc = "done" /\ ~Running)

\* The client has gone while ffmpeg, which has written a chunk, is running.
C21_Witness ==
  /\ Running
  /\ cancelled
  /\ cmd.started
  /\ sent = 1

(* ------------------------------ C22 ------------------------------------ *)

\* The positions in calls of the calls of fn.
CallsOf(fn) == {i \in 1..Len(calls) : calls[i].fn = fn}

\* The primary fetch of the handler was made and failed.
FetchFailed ==
  \E i \in CallsOf(fetchName(handler)) : calls[i].result # "ok"

\* What an error page of a failed fetch says after the handler's name.
FailureTexts ==
  {"Failed to create request", "failed to create request",
   "Bluesky took too long to respond (timeout exceeded)",
   "Failed to do request", "failed to do request",
   "Unexpected status (404 Not Found)", "Unexpected status (502 Bad Gateway)",
   "Failed to decode response", "failed to decode response"}

\* The resolution strategies, as a set.
StrategySet == {Strategies[i] : i \in 1..Len(Strategies)}

\* Every outbound operation the handlers make.
Operations == StrategySet \cup {"resolvePLC"} \cup {fetchName(h) : h \in Handlers}

\* C22: when the primary fetch fails, the handler answers with one error page
\* that names the failing handler, and that is the end of the request: the
\* fetch is the last outbound call, it is not made again, nothing is decoded
\* or normalized, no subprocess is started, nothing is redirected or
\* rendered. No operation is made twice for the same purpose: each
\* resolution strategy and the fetch at most once, the directory lookup at
\* most once for the profile and once for the owner of a video.
C22_FailureIsFinal ==
  /\ FetchFailed =>
       /\ pc = "done"
       /\ response.kind = "error"
       /\ \E t \in FailureTexts : response.arg = handler \o ": " \o t
       /\ calls[Len(calls)].fn = fetchName(handler)
       /\ postData = ZeroThread
       /\ selfData = ZeroOwnData
       /\ mediaMsg = <<>>
       /\ ~cmd.started
       /\ sent = 0
  /\ \A fn \in Operations :
       Cardinality(CallsOf(fn)) <= IF fn = "resolvePLC" THEN 2 ELSE 1
  /\ \A i \in CallsOf("resolvePLC"), j \in CallsOf("resolvePLC") :
       i < j => /\ \A k \in CallsOf(fetchName(handler)) : i < k /\ k < j
                /\ CallsOf(fetchName(handler)) # {}

\* The fetch timed out after the handle was resolved and the directory asked.
C22_Witness ==
  /\ FetchFailed
  /\ calls[Len(calls)].result = "timeout"
  /\ CallsOf("resolveHandleAPI") # {}
  /\ CallsOf("resolvePLC") # {}
  /\ pc = "done"

(* ------------------------------ C23 ------------------------------------ *)

\* How the failed fetch failed.
FailureCause == calls[Len(calls)].result

\* The three messages of a handler the users can tell apart: the timeout,
\* the failed connection, the bad status.
TimeoutText(h) == h \o ": Bluesky took too long to respond (timeout exceeded)"

ConnectionTexts(h) == {h \o ": Failed to do request", h \o ": failed to do request"}

StatusTexts(h) == {h \o ": Unexpected status (" \o status \o ")" : status \in Statuses}

\* C23: for the primary fetch of getProfile, getFeed, getList, getPack and
\* getPost, a timeout, a failed connection and a bad status are reported with
\* three different messages: the error page of a timeout is the timeout
\* message, that of another connection error is the "do request" message,
\* that of a bad status is the status message, and no two of them are equal.
C23_ThreeMessages ==
  /\ FetchFailed =>
       /\ response.kind = "error"
       /\ FailureCause = "timeout" <=> response.arg = TimeoutText(handler)
       /\ FailureCause = "network" <=> response.arg \in ConnectionTexts(handler)
       /\ FailureCause = "status" <=> response.arg \in StatusTexts(handler)
  /\ \A h \in Handlers, status \in Statuses :
       /\ fetchMessage(h, "timeout", status) # fetchMessage(h, "network", status)
       /\ fetchMessage(h, "timeout", status) \notin StatusTexts(h)
       /\ fetchMessage(h, "network", status) \notin StatusTexts(h)

\* The fetch of a list timed out.
C23_Witness ==
  /\ handler = "getList"
  /\ FetchFailed
  /\ FailureCause = "timeout"
  /\ response.kind = "error"
  /\ pc = "done"

(* ------------------------------ C24 ------------------------------------ *)

\* The host an external URI names, as it is written in the URI; none when
\* the URI cannot be parsed.
WrittenHost(u) ==
  CASE u \in {gifURI, escapedGifURI} -> "media.tenor.com"
    [] u = linkURI -> "example.com"
    [] OTHER -> ""

\* The path of an external URI as it is written in the URI, up to the query.
WrittenPath(u) ==
  CASE u = gifURI -> "/abc.gif"
    [] u = escapedGifURI -> "/a%20b.gif"
    [] u = linkURI -> "/page"
    [] OTHER -> ""

\* The post-processing step of an external embed.
ExternalStep == pc = "postprocess" /\ selfData.Type = bskyEmbedExternal

\* C24: in the post-processing of an external embed, when the host of the
\* URI is media.tenor.com, IsGif is set, the URI becomes
\* https://media.tenor.com followed by the original path, without the query,
\* and the description is left alone; when the host differs or the URI does
\* not parse, IsGif is false, the URI is unchanged and the title and the
\* description of the external are appended to the description.
C24_GifRewrite ==
  [][ExternalStep =>
       IF WrittenHost(selfData.External.URI) = "media.tenor.com"
       THEN /\ selfData'.IsGif
            /\ selfData'.External.URI =
                 "https://media.tenor.com" \o WrittenPath(selfData.External.URI)
            /\ selfData'.Description = selfData.Description
       ELSE /\ ~selfData'.IsGif
            /\ selfData'.External.URI = selfData.External.URI
            /\ selfData'.Description =
                 selfData.Description \o <<NL, NL>> \o Str(selfData.External.Title)
                   \o <<NL>> \o Str(selfData.External.Description)]_vars

(* ------------------------------ C25 ------------------------------------ *)

\* C25: the outbound calls of a request (the resolution strategies, the fetch
\* of the directory document, the primary fetch, the directory fetch for the
\* owner of a video) are made one after another: at most one is in flight,
\* it is the one the handler is waiting for, and a resolution strategy is in
\* flight only when every strategy before it has returned without a DID.
C25_OneInFlight ==
  /\ Cardinality(inflight) <= 1
  /\ inflight \subseteq Outbound
  /\ \A i \in 1..Len(Strategies) :
       Strategies[i] \in inflight =>
         /\ Len(Tried) = i - 1
         /\ \A j \in 1..(i - 1) : Tried[j].fn = Strategies[j] /\ Tried[j].result # "ok"

\* The DNS query is in flight, after the API has answered and failed.
C25_Witness ==
  /\ inflight = {"resolveHandleDNS"}
  /\ Len(Tried) = 1
  /\ Tried[1].fn = "resolveHandleAPI"
  /\ pc = "dns"

(* ------------------------------ C26 ------------------------------------ *)

\* The identifiers resolveHandle can have yielded, given the strategies
\* tried: a value of the successful one, else the identifier of the request.
Yielded ==
  IF Tried # <<>> /\ Tried[Len(Tried)].result = "ok"
  THEN Produced(Tried[Len(Tried)].fn)
  ELSE {profileID}

\* The directory lookups made for the profile: those before the fetch.
ProfileLookups ==
  {i \in CallsOf("resolvePLC") : \A k \in CallsOf(fetchName(handler)) : i < k}

\* C26: handle resolution runs at most once, before any other outbound call;
\* the identifier it yields is the one the directory is asked for and (as an
\* at:// URI, except in getProfile) the one the primary fetch asks for, and
\* it is not replaced afterwards.
C26_ResolvedOnce ==
  /\ \A fn \in StrategySet : Cardinality(CallsOf(fn)) <= 1
  /\ \A i \in 1..Len(calls) :
       calls[i].fn \in StrategySet => \A j \in 1..(i - 1) : calls[j].fn \in StrategySet
  /\ Resolved =>
       \E id \in Yielded :
         /\ \A i \in ProfileLookups : calls[i].arg = id
         /\ plcLookup(id) /\ pc # "plc" => ProfileLookups # {}
         /\ editedPID = IF pc = "plc" THEN id
                        ELSE IF handler = "getProfile" THEN id ELSE "at://" \o id
         /\ \A k \in CallsOf(fetchName(handler)) :
              calls[k].arg = IF handler = "getProfile" THEN id ELSE "at://" \o id

\* The handle was resolved by the API, the directory was asked for that DID
\* and the feed generator for its at:// URI.
C26_Witness ==
  /\ handler = "getFeed"
  /\ profileID = "post.test"
  /\ pc = "done"
  /\ Len(calls) = 3
  /\ calls[1] = Call("resolveHandleAPI", "post.test", "ok")
  /\ calls[2].fn = "resolvePLC" /\ calls[2].arg = "did:plc:api"
  /\ calls[3].fn = "app.bsky.feed.getFeedGenerator" /\ calls[3].arg = "at://did:plc:api"

(* ------------------------------ C27 ------------------------------------ *)

\* The normalization switch has just run on a main post that only quotes a
\* record, and the quoted record carries nested embeds.
QuoteOnlyNested == pc = "postprocess" /\ HasNested

\* The quoted record of the main post, and its first nested embed.
Quoted == postData.Post.Embed.Record

FirstNested == Quoted.Embeds[1]

\* The thread with the nested embeds after the first removed.
FirstOnly(thread) ==
  [thread EXCEPT !.Post.Embed.Record.Embeds = <<thread.Post.Embed.Record.Embeds[1]>>]

\* C27: for a main post that only quotes a record with nested embeds, the
\* kind and the media are those of the first nested embed (of its own media,
\* or of the media beside its quote): the nested embeds after the first
\* change nothing, and the owner of a video found there is the author of the
\* quoted record.
C27_FirstNestedOnly ==
  QuoteOnlyNested =>
    /\ Payload(selfData) = MainPayload(FirstOnly(postData))
    /\ FirstNested.Type = bskyEmbedImages =>
         selfData.Type = bskyEmbedImages /\ selfData.Images = FirstNested.Images
    /\ FirstNested.Type = bskyEmbedExternal =>
         selfData.Type = bskyEmbedExternal /\ selfData.External = FirstNested.External
    /\ FirstNested.Type = bskyEmbedVideo =>
         selfData.Type = bskyEmbedVideo /\ selfData.VideoCID = FirstNested.CID
    /\ FirstNested.Type = bskyEmbedQuote /\ FirstNested.Media.Type = bskyEmbedVideo =>
         selfData.Type = bskyEmbedVideo /\ selfData.VideoCID = FirstNested.Media.CID
    /\ FirstNested.Type = bskyEmbedQuote /\ FirstNested.Media.Type = bskyEmbedImages =>
         selfData.Type = bskyEmbedImages /\ selfData.Images = FirstNested.Media.Images
    /\ FirstNested.Type \notin {bskyEmbedVideo, bskyEmbedQuote} => selfData.Type # bskyEmbedVideo
    /\ selfData.Type = bskyEmbedVideo => selfData.VideoDID = Quoted.Author.DID

\* The first nested embed has a video beside its quote and a second nested
\* embed follows: the owner is the quoted author, who is not the post's.
C27_Witness ==
  /\ QuoteOnlyNested
  /\ Len(Quoted.Embeds) >= 2
  /\ FirstNested.Type = bskyEmbedQuote
  /\ FirstNested.Media.Type = bskyEmbedVideo
  /\ selfData.VideoCID = FirstNested.Media.CID
  /\ selfData.VideoDID = Quoted.Author.DID
  /\ Quoted.Author.DID # postData.Post.Author.DID

(* ------------------------------ C28 ------------------------------------ *)

\* resolveHandle has just returned: editedPID is what it returned.
JustResolved == pc = "plc" /\ Tried # <<>>

\* C28: whenever resolveHandle returns a value different from its input, the
\* value begins with "did:": each of the three strategies accepts only a DID.
C28_OnlyDids ==
  JustResolved /\ editedPID # profileID => HasPrefix(editedPID, "did:")

(* ------------------------------ C29 ------------------------------------ *)

\* C29: the photo index narrows the list before the view mode is chosen. On
\* the mosaic. and raw. hosts, for a post of N >= 2 images, a photo index in
\* 1..N starts no subprocess and the answer is a redirect to the selected
\* image; without a photo index the compositor is started on all N images,
\* in their order.
C29_NarrowsFirst ==
  MosaicAsked /\ Len(NormImages) >= 2 =>
    /\ PositivePhoto /\ PhotoIndex <= Len(NormImages) =>
         /\ ~Started
         /\ pc = "done"
         /\ Answered(redirect(NormImages[PhotoIndex].FullSize))
    /\ photoNum = "" =>
         /\ Started
         /\ cmd.inputs = [i \in 1..Len(NormImages) |-> NormImages[i].FullSize]

\* The second of three images is asked for on the mosaic. host.
C29_Witness ==
  /\ MosaicAsked
  /\ host = "mosaic.xbsky.app"
  /\ Len(NormImages) = MaxImages
  /\ photoNum = "2"
  /\ ~Started
  /\ Answered(redirect(NormImages[2].FullSize))

(* ------------------------------ C30 ------------------------------------ *)

\* The outcomes a request can end with: an error (the error page, or the
\* text of http.Error), a redirect, an image stream, JSON, the rendered page.
Outcomes == {"error", "error500", "redirect", "stream", "json", "render"}

\* Every request comes to its end, when the fetch returns or times out and
\* ffmpeg exits or is killed: no path loops.
C30_Terminates == <>(pc = "done")

\* C30: every getPost request ends with exactly one terminal outcome (error
\* page, redirect, image stream, JSON or rendered page), for every thread
\* shape, view mode and photo index: a request that has ended has answered,
\* and with one of them only.
C30_OneOutcome ==
  /\ pc = "done" => response.kind \in Outcomes
  /\ pc # "done" => response.kind \in {"none", "stream"}
  /\ response.kind = "stream" => Started

====
